---- MODULE Spec2Model ----
(***************************************************************************)
(* Model of the request pipeline of the Universal MCP Gateway:             *)
(*   AdvancedCache  (src/src/config/settings.js, second half)              *)
(*   HttpClient     (src/src/utils/httpClient.js)                          *)
(*   MetricsCollector (src/unnamed/part_002)                               *)
(*                                                                         *)
(* JavaScript strings are modelled as sequences of one-character strings,  *)
(* so that "" is << >> and truthiness, concatenation and substring tests   *)
(* can be computed.  A JavaScript Map is a sequence of records in          *)
(* insertion order (Map.set on a present key keeps the key's position).    *)
(* A value that may be null/undefined is a sequence of length 0 or 1.      *)
(***************************************************************************)
EXTENDS Integers, Sequences, FiniteSets, TLC

(***************************************************************************)
(* Bounds of the model                                                     *)
(***************************************************************************)
MaxTime == 1
MaxDrift == 0
MaxCapacity == 2
MaxSets == 3
MaxGets == 2
MaxRetries == 3
MaxLimit == 2
MaxCalls == 3
NumTasks == 2
MaxAdvances == 1
MaxParams == 3
MaxFragments == 3
MaxRecords == 4
LongRun == 102
MaxHeaders == 2
MaxToolCalls == 3

(***************************************************************************)
(* Program constants                                                       *)
(***************************************************************************)
DefaultTTL == 300000

(***************************************************************************)
(* JSON values.  One record shape for every value so that any two values   *)
(* can be compared.                                                        *)
(***************************************************************************)
JNull == [t |-> "null", b |-> FALSE, n |-> 0, s |-> << >>]
JBool(x) == [t |-> "bool", b |-> x, n |-> 0, s |-> << >>]
JNum(x) == [t |-> "num", b |-> FALSE, n |-> x, s |-> << >>]
JStr(x) == [t |-> "str", b |-> FALSE, n |-> 0, s |-> x]
JObj(x) == [t |-> "obj", b |-> FALSE, n |-> x, s |-> << >>]

\* JavaScript ToBoolean of a JSON value, as applied by `if (cachedResponse)`
ToBoolean(v) ==
    CASE v.t = "null" -> FALSE
      [] v.t = "bool" -> v.b
      [] v.t = "num" -> v.n # 0
      [] v.t = "str" -> v.s # << >>
      [] OTHER -> TRUE

(***************************************************************************)
(* Map helpers (insertion-ordered)                                         *)
(***************************************************************************)
MapKeys(m) == {m[i].key : i \in 1..Len(m)}

MapHas(m, k) == \E i \in 1..Len(m) : m[i].key = k

MapIndex(m, k) == CHOOSE i \in 1..Len(m) : m[i].key = k

MapGet(m, k) == m[MapIndex(m, k)]

\* a Map that keeps the old entry of a key beside the new one
MapSet_Append(m, k, rec) == Append(m, rec)

MapSet(m, k, rec) ==
    IF MapHas(m, k)
    THEN [m EXCEPT ![MapIndex(m, k)] = rec]
    ELSE Append(m, rec)

MapDelete(m, k) ==
    IF MapHas(m, k)
    THEN LET j == MapIndex(m, k)
         IN  SubSeq(m, 1, j - 1) \o SubSeq(m, j + 1, Len(m))
    ELSE m

(***************************************************************************)
(* Inputs of the cache operations                                          *)
(***************************************************************************)
Keys == {<< >>, <<"a">>, <<"b">>}
CacheValues == {JNum(0), JObj(1)}
TTLArgs == {<< >>, <<0>>, <<-1>>, <<1>>}
\* a reading of Date.now() taken after the reading `from`
ClockReadings(from) == from..MaxTime
\* a further reading taken inside the same synchronous operation
ClockAgain(from) == from..(from + MaxDrift)

(***************************************************************************)
(* State                                                                   *)
(***************************************************************************)
VARIABLES
    now,          \* the latest reading of Date.now()
    maxSize,      \* AdvancedCache.maxSize
    cache,        \* AdvancedCache.cache : Map key -> {data, expiresAt, createdAt}
    accessTimes,  \* AdvancedCache.accessTimes : Map key -> time
    metrics,      \* AdvancedCache.metrics
    useOrder,     \* resident keys, least recently used (in operation order) first
    lastOp,       \* the operation that was last invoked on the cache directly, with its result
    retries,      \* config.apis[apiName].retries
    limit,        \* config.apis[apiName].rateLimit.requests
    window,       \* config.apis[apiName].rateLimit.window
    requestCount, \* HttpClient.requestCount
    resetTime,    \* HttpClient.resetTime
    calls,        \* the invocations of HttpClient.request, one per task
    started,      \* how many invocations have begun
    epoch,        \* how many times the rate-limit window has been reset
    windowUse,    \* attempts charged to the current window: first attempts, retries
    advances,     \* how many times the clock has been seen to advance
    callArgs,     \* the arguments of the pure function under study
    server,       \* the tool calls in hand, the last result returned, their number
    callRet,      \* what it returned (<< >> before it is applied)
    collector,    \* MetricsCollector.metrics
    report,       \* what getReport returned, if it was the last call on the collector
    recorded,     \* what was recorded since construction or the last reset
    workload      \* which calls the collector is given: "mixed", "long" or "none"

cacheVars == <<maxSize, cache, accessTimes, metrics, useOrder, lastOp>>
configVars == <<retries, limit, window>>
httpVars == <<configVars, requestCount, resetTime, calls, started, epoch, windowUse, advances>>
collectorVars == <<collector, report, recorded, workload>>
sideVars == <<callArgs, server, callRet, collectorVars>>
vars == <<now, cacheVars, httpVars, sideVars>>

ZeroMetrics == [hits |-> 0, misses |-> 0, sets |-> 0, evictions |-> 0, totalRequests |-> 0]

\* In lastOp: `val` is the value given to set or returned by get; `flag` is the
\* result of has and delete, and whether get counted a hit; `num` is the ttl
\* given to set (0 for none), the number of entries get removed, or the
\* result of cleanup; `at` is the reading of the clock from which set
\* computed expiresAt, or with which get tested the expiry.
NoOp == [op |-> "new", key |-> << >>, val |-> JNull, flag |-> FALSE, num |-> 0, at |-> 0]

\* A cache object: the three mutable fields of AdvancedCache
CacheObj(c, a, m) == [cache |-> c, accessTimes |-> a, metrics |-> m]

(***************************************************************************)
(* AdvancedCache.evictLRU                                                  *)
(***************************************************************************)
RECURSIVE ScanOldest(_, _, _)
\* the for-loop of evictLRU: acc.key is oldestKey (<< >> is null),
\* acc.inf says that oldestTime is still Infinity
ScanOldest(a, i, acc) ==
    IF i > Len(a) THEN acc
    ELSE IF acc.inf \/ a[i].time < acc.time
         THEN ScanOldest(a, i + 1, [key |-> <<a[i].key>>, time |-> a[i].time, inf |-> FALSE])
         ELSE ScanOldest(a, i + 1, acc)

OldestKey(a) == ScanOldest(a, 1, [key |-> << >>, time |-> 0, inf |-> TRUE]).key

\* `if (oldestKey)`: null and the empty string are falsy
KeyTruthy(ok) == ok # << >> /\ ok[1] # << >>

evictLRU(o) ==
    LET ok == OldestKey(o.accessTimes)
    IN  IF KeyTruthy(ok)
        THEN CacheObj(MapDelete(o.cache, ok[1]),
                      MapDelete(o.accessTimes, ok[1]),
                      [o.metrics EXCEPT !.evictions = @ + 1])
        ELSE o

(***************************************************************************)
(* AdvancedCache.set(key, data, ttl) with the three readings of Date.now() *)
(***************************************************************************)
\* `ttl || this.defaultTTL`
ActualTTL(ttl) == IF ttl = << >> \/ ttl[1] = 0 THEN DefaultTTL ELSE ttl[1]

\* the ttl argument as a number: null and 0 are both falsy
TTLGiven(ttl) == IF ttl = << >> THEN 0 ELSE ttl[1]

\* the capacity test without `!this.cache.has(key)`
NeedsEvict_Full(o, size, key) == Len(o.cache) >= size

NeedsEvict(o, size, key) == Len(o.cache) >= size /\ ~MapHas(o.cache, key)

\* set that stores null for every value
CacheSet_NullData(o, size, key, data, ttl, t1, t2, t3) ==
    LET expiresAt == t1 + ActualTTL(ttl)
        e == IF NeedsEvict(o, size, key) THEN evictLRU(o) ELSE o
    IN  CacheObj(MapSet(e.cache, key, [key |-> key, data |-> JNull,
                                        expiresAt |-> expiresAt, createdAt |-> t2]),
                 MapSet(e.accessTimes, key, [key |-> key, time |-> t3]),
                 [e.metrics EXCEPT !.sets = @ + 1])

CacheSet(o, size, key, data, ttl, t1, t2, t3) ==
    LET expiresAt == t1 + ActualTTL(ttl)
        e == IF NeedsEvict(o, size, key) THEN evictLRU(o) ELSE o
    IN  CacheObj(MapSet(e.cache, key, [key |-> key, data |-> data,
                                        expiresAt |-> expiresAt, createdAt |-> t2]),
                 MapSet(e.accessTimes, key, [key |-> key, time |-> t3]),
                 [e.metrics EXCEPT !.sets = @ + 1])

(***************************************************************************)
(* AdvancedCache.get(key): t1 is read by the expiry test, t2 by the        *)
(* access-time update.  Result: the new object and the returned value.     *)
(***************************************************************************)
\* get that returns the entry's value without the expiry test
CacheGet_NoExpiry(o, key, t1, t2) ==
    LET m1 == [o.metrics EXCEPT !.totalRequests = @ + 1]
    IN  IF ~MapHas(o.cache, key)
        THEN [obj |-> CacheObj(o.cache, o.accessTimes, [m1 EXCEPT !.misses = @ + 1]),
              ret |-> JNull, hit |-> FALSE]
        ELSE [obj |-> CacheObj(o.cache,
                               MapSet(o.accessTimes, key, [key |-> key, time |-> t2]),
                               [m1 EXCEPT !.hits = @ + 1]),
              ret |-> MapGet(o.cache, key).data, hit |-> TRUE]

\* the read that finds its entry expired empties the cache
CacheGet_PurgeAll(o, key, t1, t2) ==
    LET m1 == [o.metrics EXCEPT !.totalRequests = @ + 1]
    IN  IF ~MapHas(o.cache, key)
        THEN [obj |-> CacheObj(o.cache, o.accessTimes, [m1 EXCEPT !.misses = @ + 1]),
              ret |-> JNull, hit |-> FALSE]
        ELSE IF t1 > MapGet(o.cache, key).expiresAt
        THEN [obj |-> CacheObj(<< >>, << >>, [m1 EXCEPT !.misses = @ + 1]),
              ret |-> JNull, hit |-> FALSE]
        ELSE [obj |-> CacheObj(o.cache,
                               MapSet(o.accessTimes, key, [key |-> key, time |-> t2]),
                               [m1 EXCEPT !.hits = @ + 1]),
              ret |-> MapGet(o.cache, key).data, hit |-> TRUE]

\* the read that finds its entry expired counts no miss
CacheGet_SilentExpiry(o, key, t1, t2) ==
    LET m1 == [o.metrics EXCEPT !.totalRequests = @ + 1]
    IN  IF ~MapHas(o.cache, key)
        THEN [obj |-> CacheObj(o.cache, o.accessTimes, [m1 EXCEPT !.misses = @ + 1]),
              ret |-> JNull, hit |-> FALSE]
        ELSE IF t1 > MapGet(o.cache, key).expiresAt
        THEN [obj |-> CacheObj(MapDelete(o.cache, key), MapDelete(o.accessTimes, key), m1),
              ret |-> JNull, hit |-> FALSE]
        ELSE [obj |-> CacheObj(o.cache,
                               MapSet(o.accessTimes, key, [key |-> key, time |-> t2]),
                               [m1 EXCEPT !.hits = @ + 1]),
              ret |-> MapGet(o.cache, key).data, hit |-> TRUE]

CacheGet(o, key, t1, t2) ==
    LET m1 == [o.metrics EXCEPT !.totalRequests = @ + 1]
    IN  IF ~MapHas(o.cache, key)
        THEN [obj |-> CacheObj(o.cache, o.accessTimes, [m1 EXCEPT !.misses = @ + 1]),
              ret |-> JNull, hit |-> FALSE]
        ELSE IF t1 > MapGet(o.cache, key).expiresAt
        THEN [obj |-> CacheObj(MapDelete(o.cache, key), MapDelete(o.accessTimes, key),
                               [m1 EXCEPT !.misses = @ + 1]),
              ret |-> JNull, hit |-> FALSE]
        ELSE [obj |-> CacheObj(o.cache,
                               MapSet(o.accessTimes, key, [key |-> key, time |-> t2]),
                               [m1 EXCEPT !.hits = @ + 1]),
              ret |-> MapGet(o.cache, key).data, hit |-> TRUE]

(***************************************************************************)
(* AdvancedCache.cleanup, has, delete, clear                               *)
(***************************************************************************)
RECURSIVE CleanupFrom(_, _, _)
\* the for-loop of cleanup over the entries as they were at the call;
\* deleting the entry under the iterator does not skip its successor
CleanupFrom(o, keys, t) ==
    IF keys = << >> THEN [obj |-> o, cleaned |-> 0]
    ELSE LET k == Head(keys)
             expired == t > MapGet(o.cache, k).expiresAt
             o2 == IF expired
                   THEN CacheObj(MapDelete(o.cache, k), MapDelete(o.accessTimes, k), o.metrics)
                   ELSE o
             rest == CleanupFrom(o2, Tail(keys), t)
         IN  [obj |-> rest.obj, cleaned |-> rest.cleaned + (IF expired THEN 1 ELSE 0)]

\* cleanup that counts every entry it visits
CacheCleanup_CountAll(o, t) ==
    [obj |-> CleanupFrom(o, [i \in 1..Len(o.cache) |-> o.cache[i].key], t).obj,
     cleaned |-> Len(o.cache)]

\* the cleanup that removes every entry
CacheCleanup_All(o, t) ==
    [obj |-> CacheObj(<< >>, << >>, o.metrics), cleaned |-> Len(o.cache)]

CacheCleanup(o, t) ==
    CleanupFrom(o, [i \in 1..Len(o.cache) |-> o.cache[i].key], t)

\* has answered by get: it counts the lookup and refreshes the access time
CacheHas_AsGet(o, key, t) ==
    [obj |-> CacheGet(o, key, t, t).obj, ret |-> CacheGet(o, key, t, t).hit]

CacheHas(o, key, t) ==
    IF ~MapHas(o.cache, key)
    THEN [obj |-> o, ret |-> FALSE]
    ELSE IF t > MapGet(o.cache, key).expiresAt
    THEN [obj |-> CacheObj(MapDelete(o.cache, key), MapDelete(o.accessTimes, key), o.metrics),
          ret |-> FALSE]
    ELSE [obj |-> o, ret |-> TRUE]

\* delete that leaves the access time behind
CacheDelete_EntryOnly(o, key) ==
    [obj |-> CacheObj(MapDelete(o.cache, key), o.accessTimes, o.metrics),
     ret |-> MapHas(o.cache, key)]

CacheDelete(o, key) ==
    [obj |-> CacheObj(MapDelete(o.cache, key), MapDelete(o.accessTimes, key), o.metrics),
     ret |-> MapHas(o.cache, key)]

CacheClear(o) == CacheObj(<< >>, << >>, ZeroMetrics)

(***************************************************************************)
(* The order of last use by operation, independent of the clock            *)
(***************************************************************************)
SeqRemove(s, k) == SelectSeq(s, LAMBDA x : x # k)

Touch(s, k) == Append(SeqRemove(s, k), k)

\* keep the keys that are still resident
Resident(s, c) == SelectSeq(s, LAMBDA x : MapHas(c, x))

(***************************************************************************)
(* Initial state: a cache as the constructor leaves it                     *)
(***************************************************************************)
Self == CacheObj(cache, accessTimes, metrics)

InitCache ==
    /\ maxSize \in 1..MaxCapacity
    /\ cache = << >>
    /\ accessTimes = << >>
    /\ metrics = ZeroMetrics
    /\ useOrder = << >>
    /\ lastOp = NoOp

Install(o) ==
    /\ cache' = o.cache
    /\ accessTimes' = o.accessTimes
    /\ metrics' = o.metrics

(***************************************************************************)
(* Cache operations as actions                                             *)
(***************************************************************************)
Set(key, data, ttl) ==
    /\ metrics.sets < MaxSets
    /\ \E t1 \in ClockReadings(now) : \E t2 \in ClockAgain(t1) : \E t3 \in ClockAgain(t2) :
         LET o == CacheSet(Self, maxSize, key, data, ttl, t1, t2, t3)
         IN  /\ Install(o)
             /\ now' = t3
             /\ useOrder' = Touch(Resident(useOrder, o.cache), key)
             /\ lastOp' = [NoOp EXCEPT !.op = "set", !.key = key, !.val = data,
                                       !.num = TTLGiven(ttl), !.at = t1]
    /\ UNCHANGED <<maxSize, httpVars, sideVars>>

Get(key) ==
    /\ metrics.totalRequests < MaxGets
    /\ \E t1 \in ClockReadings(now) : \E t2 \in ClockAgain(t1) :
         LET r == CacheGet(Self, key, t1, t2)
         IN  /\ Install(r.obj)
             /\ now' = IF r.hit THEN t2 ELSE IF MapHas(cache, key) THEN t1 ELSE now
             /\ useOrder' = IF r.hit THEN Touch(useOrder, key)
                            ELSE Resident(useOrder, r.obj.cache)
             /\ lastOp' = [NoOp EXCEPT !.op = "get", !.key = key, !.val = r.ret,
                                       !.flag = r.hit,
                                       !.num = Len(cache) - Len(r.obj.cache),
                                       !.at = IF MapHas(cache, key) THEN t1 ELSE 0]
    /\ UNCHANGED <<maxSize, httpVars, sideVars>>

Has(key) ==
    /\ \E t \in ClockReadings(now) :
         LET r == CacheHas(Self, key, t)
         IN  /\ Install(r.obj)
             /\ now' = IF MapHas(cache, key) THEN t ELSE now
             /\ useOrder' = Resident(useOrder, r.obj.cache)
             /\ lastOp' = [NoOp EXCEPT !.op = "has", !.key = key, !.flag = r.ret]
    /\ UNCHANGED <<maxSize, httpVars, sideVars>>

Delete(key) ==
    /\ LET r == CacheDelete(Self, key)
       IN  /\ Install(r.obj)
           /\ useOrder' = Resident(useOrder, r.obj.cache)
           /\ lastOp' = [NoOp EXCEPT !.op = "delete", !.key = key, !.flag = r.ret]
    /\ UNCHANGED <<now, maxSize, httpVars, sideVars>>

Cleanup ==
    /\ \E t \in ClockReadings(now) :
         LET r == CacheCleanup(Self, t)
         IN  /\ Install(r.obj)
             /\ now' = t
             /\ useOrder' = Resident(useOrder, r.obj.cache)
             /\ lastOp' = [NoOp EXCEPT !.op = "cleanup", !.num = r.cleaned]
    /\ UNCHANGED <<maxSize, httpVars, sideVars>>

Clear ==
    /\ Install(CacheClear(Self))
    /\ useOrder' = << >>
    /\ lastOp' = [NoOp EXCEPT !.op = "clear"]
    /\ UNCHANGED <<now, maxSize, httpVars, sideVars>>

(***************************************************************************)
(* Strings of the pipeline.  Characters are ordered by their UTF-16 code   *)
(* unit, which is the order Array.prototype.sort uses for strings.         *)
(***************************************************************************)
CodeUnits ==
    <<"&", "/", ":", "=", "?", "A", "B", "D", "E", "G", "L", "O", "P", "S", "T", "U",
      "a", "b", "c", "d", "e", "g", "h", "i", "m", "o", "p", "q", "r", "s", "t", "u">>

CodeOf(ch) == CHOOSE i \in 1..Len(CodeUnits) : CodeUnits[i] = ch

RECURSIVE StrLess(_, _)
\* a < b for two strings, compared code unit by code unit
StrLess(a, b) ==
    IF b = << >> THEN FALSE
    ELSE IF a = << >> THEN TRUE
    ELSE IF Head(a) = Head(b) THEN StrLess(Tail(a), Tail(b))
    ELSE CodeOf(Head(a)) < CodeOf(Head(b))

\* String.prototype.includes
Includes(s, pat) ==
    \E i \in 0..(Len(s) - Len(pat)) : SubSeq(s, i + 1, i + Len(pat)) = pat

S_github == <<"g", "i", "t", "h", "u", "b">>
S_method == <<"m", "e", "t", "h", "o", "d">>
S_GET == <<"G", "E", "T">>
S_POST == <<"P", "O", "S", "T">>
S_PUT == <<"P", "U", "T">>
S_DELETE == <<"D", "E", "L", "E", "T", "E">>
S_users == <<"/", "u", "s", "e", "r", "s", "/">>
S_repos == <<"/", "r", "e", "p", "o", "s">>
S_reposSlash == <<"/", "r", "e", "p", "o", "s", "/">>
S_issues == <<"/", "i", "s", "s", "u", "e", "s">>
S_search == <<"/", "s", "e", "a", "r", "c", "h", "/">>

(***************************************************************************)
(* AdvancedCache.generateKey(apiName, endpoint, params).  An object is a   *)
(* sequence of [name, value] properties in insertion order.                *)
(***************************************************************************)
RECURSIVE InsertSorted(_, _)
InsertSorted(sorted, name) ==
    IF sorted = << >> THEN <<name>>
    ELSE IF StrLess(name, Head(sorted)) THEN <<name>> \o sorted
    ELSE <<Head(sorted)>> \o InsertSorted(Tail(sorted), name)

RECURSIVE SortNames(_)
\* Object.keys(params).sort()
SortNames(names) ==
    IF names = << >> THEN << >>
    ELSE InsertSorted(SortNames(Tail(names)), Head(names))

ObjectKeys(obj) == [i \in 1..Len(obj) |-> obj[i].name]

ObjectGet(obj, name) == (CHOOSE i \in 1..Len(obj) : obj[i].name = name)

RECURSIVE JoinPairs(_, _)
\* .map(key => `${key}=${params[key]}`).join('&')
JoinPairs(names, obj) ==
    IF names = << >> THEN << >>
    ELSE LET nm == Head(names)
             pair == nm \o <<"=">> \o obj[ObjectGet(obj, nm)].value
         IN  IF Tail(names) = << >> THEN pair
             ELSE pair \o <<"&">> \o JoinPairs(Tail(names), obj)

\* the key without the sort
generateKey_Unsorted(apiName, endpoint, params) ==
    apiName \o <<":">> \o endpoint \o <<":">> \o JoinPairs(ObjectKeys(params), params)

generateKey(apiName, endpoint, params) ==
    apiName \o <<":">> \o endpoint \o <<":">> \o JoinPairs(SortNames(ObjectKeys(params)), params)

\* { a, ...b }: a property of b replaces the value of a's property of that
\* name in place, a new name is appended
RECURSIVE Spread(_, _)
Spread(a, b) ==
    IF b = << >> THEN a
    ELSE LET p == Head(b)
             has == \E i \in 1..Len(a) : a[i].name = p.name
             a2 == IF has THEN [a EXCEPT ![ObjectGet(a, p.name)] = p] ELSE Append(a, p)
         IN  Spread(a2, Tail(b))

(***************************************************************************)
(* HttpClient.getCacheTTL(endpoint)                                        *)
(***************************************************************************)
\* the first two rules without their exclusions
getCacheTTL_NoExclusion(endpoint) ==
    IF Includes(endpoint, S_users) THEN 600000
    ELSE IF Includes(endpoint, S_reposSlash) THEN 300000
    ELSE IF Includes(endpoint, S_search) THEN 180000
    ELSE IF Includes(endpoint, S_issues) THEN 60000
    ELSE DefaultTTL

getCacheTTL(endpoint) ==
    IF Includes(endpoint, S_users) /\ ~Includes(endpoint, S_repos) THEN 600000
    ELSE IF Includes(endpoint, S_reposSlash) /\ ~Includes(endpoint, S_issues) THEN 300000
    ELSE IF Includes(endpoint, S_search) THEN 180000
    ELSE IF Includes(endpoint, S_issues) THEN 60000
    ELSE DefaultTTL

(***************************************************************************)
(* MetricsCollector (src/unnamed/part_002).  The fields `cache` and        *)
(* `startTime` of its state, and the uptime line of its report, are left   *)
(* out.  A quotient such as avgResponseTime is kept as numerator and       *)
(* denominator.  An object used as a table is a Map.                       *)
(***************************************************************************)
HistoryLimit == 100

NewCollector ==
    [requests |-> [total |-> 0, successful |-> 0, failed |-> 0,
                   byApi |-> << >>, byTool |-> << >>],
     performance |-> [totalResponseTime |-> 0,
                      avgResponseTime |-> [num |-> 0, den |-> 1],
                      minResponseTime |-> << >>,   \* << >> is Infinity
                      maxResponseTime |-> 0,
                      responseTimeHistory |-> << >>],
     errors |-> [total |-> 0, byType |-> << >>, byApi |-> << >>],
     \* hitRate is the number 0 until the first update, a string with "%" after
     cache |-> [hits |-> 0, misses |-> 0, hitRate |-> <<"0">>]]

\* startRequest(apiName, toolName) at the reading t
startRequest(apiName, toolName, t) ==
    [apiName |-> apiName, toolName |-> toolName, startTime |-> t]

\* `requests.total++; requests.successful++`
CountSucceeded(requests) == [requests EXCEPT !.total = @ + 1, !.successful = @ + 1]

\* the failure counted in the total only
CountFailed_TotalOnly(requests) == [requests EXCEPT !.total = @ + 1]

\* `requests.total++; requests.failed++`
CountFailed(requests) == [requests EXCEPT !.total = @ + 1, !.failed = @ + 1]

\* `if (!by[name]) by[name] = { total: 0, successful: 0, failed: 0 }` and the
\* two increments that follow
Tally(by, name, succeeded) ==
    LET b == IF MapHas(by, name) THEN by
             ELSE Append(by, [key |-> name, total |-> 0, successful |-> 0, failed |-> 0])
        e == MapGet(b, name)
    IN  MapSet(b, name, IF succeeded
                        THEN [e EXCEPT !.total = @ + 1, !.successful = @ + 1]
                        ELSE [e EXCEPT !.total = @ + 1, !.failed = @ + 1])

\* `if (!by[name]) by[name] = 0; by[name]++`
Bump(by, name) ==
    LET b == IF MapHas(by, name) THEN by ELSE Append(by, [key |-> name, count |-> 0])
    IN  MapSet(b, name, [MapGet(b, name) EXCEPT !.count = @ + 1])

\* the history losing its newest sample
TrimHistory_Newest(h) == IF Len(h) > HistoryLimit THEN SubSeq(h, 1, Len(h) - 1) ELSE h

\* `if (history.length > 100) history.shift()`
TrimHistory(h) == IF Len(h) > HistoryLimit THEN Tail(h) ELSE h

\* recordPerformance(duration); t is the reading that stamps the sample
recordPerformance(m, duration, t) ==
    LET p == m.performance
        sum == p.totalResponseTime + duration
    IN  [m EXCEPT !.performance =
            [totalResponseTime |-> sum,
             avgResponseTime |-> [num |-> sum, den |-> m.requests.total],
             minResponseTime |-> IF p.minResponseTime = << >> \/ duration < p.minResponseTime[1]
                                 THEN <<duration>> ELSE p.minResponseTime,
             maxResponseTime |-> IF duration > p.maxResponseTime
                                 THEN duration ELSE p.maxResponseTime,
             responseTimeHistory |->
                 TrimHistory(Append(p.responseTimeHistory,
                                    [duration |-> duration, timestamp |-> t]))]]

\* recordError without the per-api count
recordError_TypeOnly(m, errorType, apiName) ==
    [m EXCEPT !.errors = [total |-> @.total + 1,
                          byType |-> Bump(@.byType, errorType),
                          byApi |-> @.byApi]]

recordError(m, errorType, apiName) ==
    [m EXCEPT !.errors = [total |-> @.total + 1,
                          byType |-> Bump(@.byType, errorType),
                          byApi |-> Bump(@.byApi, apiName)]]

\* recordSuccess(requestContext): t1 is read for the duration, t2 stamps the
\* sample
recordSuccess(m, ctx, t1, t2) ==
    LET duration == t1 - ctx.startTime
        r1 == CountSucceeded(m.requests)
        r2 == [r1 EXCEPT !.byApi = Tally(@, ctx.apiName, TRUE),
                         !.byTool = Tally(@, ctx.toolName, TRUE)]
    IN  recordPerformance([m EXCEPT !.requests = r2], duration, t2)

\* `error.name || 'UnknownError'`
ErrorType(error) == IF error.name = "" THEN "UnknownError" ELSE error.name

recordFailure(m, ctx, error) ==
    LET r1 == CountFailed(m.requests)
        r2 == [r1 EXCEPT !.byApi = Tally(@, ctx.apiName, FALSE),
                         !.byTool = Tally(@, ctx.toolName, FALSE)]
    IN  recordError([m EXCEPT !.requests = r2], ErrorType(error), ctx.apiName)

DigitChars == <<"0", "1", "2", "3", "4", "5", "6", "7", "8", "9">>

RECURSIVE Digits(_)
\* a natural number in decimal
Digits(n) ==
    IF n < 10 THEN <<DigitChars[n + 1]>>
    ELSE Digits(n \div 10) \o <<DigitChars[(n % 10) + 1]>>

\* a number of hundredths with two decimals
Hundredths(h) ==
    Digits(h \div 100) \o <<".", DigitChars[((h % 100) \div 10) + 1], DigitChars[(h % 10) + 1]>>

\* (num / den).toFixed(2) for num >= 0 and den > 0: the nearest number of
\* hundredths, the larger one of two that are equally near
ToFixed2(num, den) == Hundredths((200 * num + den) \div (2 * den))

S_percent == <<"%">>
S_ms == <<"m", "s">>
S_NA == <<"N", "/", "A">>

getReport(m) ==
    LET avg == ToFixed2(m.performance.avgResponseTime.num,
                        m.performance.avgResponseTime.den) \o S_ms
    IN  [summary |->
            [totalRequests |-> m.requests.total,
             successRate |-> IF m.requests.total > 0
                             THEN ToFixed2(m.requests.successful * 100, m.requests.total)
                                      \o S_percent
                             ELSE <<"0">> \o S_percent,
             avgResponseTime |-> avg,
             cacheHitRate |-> m.cache.hitRate],
         requests |-> m.requests,
         performance |->
            [totalResponseTime |-> m.performance.totalResponseTime,
             responseTimeHistory |-> m.performance.responseTimeHistory,
             avgResponseTime |-> avg,
             minResponseTime |-> IF m.performance.minResponseTime = << >> THEN S_NA
                                 ELSE Digits(m.performance.minResponseTime[1]) \o S_ms,
             maxResponseTime |-> Digits(m.performance.maxResponseTime) \o S_ms],
         errors |-> m.errors,
         cache |-> m.cache]

\* AdvancedCache.getStats: the counters and the hit rate in percent (the
\* estimate of the memory in use is not modelled)
getStats(o) ==
    [hits |-> o.metrics.hits, misses |-> o.metrics.misses, sets |-> o.metrics.sets,
     evictions |-> o.metrics.evictions, totalRequests |-> o.metrics.totalRequests,
     hitRate |-> (IF o.metrics.totalRequests > 0
                  THEN ToFixed2(o.metrics.hits * 100, o.metrics.totalRequests)
                  ELSE <<"0">>) \o S_percent,
     size |-> Len(o.cache)]

updateCacheMetrics(m, cacheStats) ==
    [m EXCEPT !.cache = [hits |-> cacheStats.hits, misses |-> cacheStats.misses,
                         hitRate |-> cacheStats.hitRate]]

NothingRecorded == [successes |-> 0, failures |-> 0, folded |-> << >>]

\* no tool call is in hand
NoServer ==
    [tools |-> [c \in 1..NumTasks |-> << >>], results |-> [c \in 1..NumTasks |-> << >>],
     count |-> 0]

InitCollector ==
    /\ collector = NewCollector
    /\ report = << >>
    /\ recorded = NothingRecorded
    /\ server = NoServer

(***************************************************************************)
(* HttpClient: configuration, inputs and the state of one invocation       *)
(***************************************************************************)
Tasks == 1..NumTasks

RetryChoices == 0..MaxRetries
LimitChoices == 1..MaxLimit
WindowChoices == {60000}

E_users == S_users \o <<"a">>
E_issues == S_reposSlash \o <<"o">> \o S_issues
Endpoints == {E_users, E_issues}

\* options.method: << >> when the caller gives none
Methods == {<< >>, <<S_GET>>, <<S_POST>>, <<S_PUT>>, <<S_DELETE>>}

\* what the dependency answers
Responses == {JNum(0), JObj(1)}

\* Error objects: the name of the class and the message.  Every failed attempt
\* raises an object of its own: `attempt` tells the objects of one invocation
\* apart (0 for the rate limiter's error).
\* `Rate limit exceeded for ${apiName}. Try again in ${seconds} seconds`
RateLimitFailure(seconds) ==
    [name |-> "Error",
     msg |-> <<"R", "a", "t", "e", " ", "l", "i", "m", "i", "t", " ", "e", "x", "c", "e", "e", "d", "e", "d", " ", "f", "o", "r", " ">> \o S_github
                 \o <<".", " ", "T", "r", "y", " ", "a", "g", "a", "i", "n", " ", "i", "n", " ">> \o Digits(seconds)
                 \o <<" ", "s", "e", "c", "o", "n", "d", "s">>,
     attempt |-> 0]

\* `HTTP ${response.status}: ${errorText}` of a response that is not ok
TransportFailure(n) ==
    [name |-> "Error", msg |-> <<"H", "T", "T", "P", " ", "5", "0", "0", ":", " ">>, attempt |-> n]

IdleCall ==
    [pc |-> "idle", endpoint |-> << >>, method |-> << >>, cacheKey |-> << >>,
     attempt |-> 0, lastError |-> << >>,
     result |-> JNull, error |-> << >>,
     attempts |-> 0, fails |-> 0, delays |-> << >>, lastFail |-> << >>,
     answer |-> << >>, fresh |-> << >>,
     admitted |-> FALSE, slot |-> 0, epoch |-> 0, afterFailure |-> FALSE,
     purged |-> FALSE]

\* every method is taken for a read
IsRead_Always(method) == TRUE

\* `!options.method || options.method === 'GET'`
IsRead(method) == method = << >> \/ method[1] = S_GET

\* `options.method || 'GET'`
MethodOrGet(method) == IF method = << >> THEN S_GET ELSE method[1]

\* the cache key computed by request (options.params is not given)
RequestKey(endpoint, method) ==
    generateKey(S_github, endpoint,
                Spread(<<[name |-> S_method, value |-> MethodOrGet(method)]>>, << >>))

(***************************************************************************)
(* HttpClient.checkRateLimit at the reading t of the clock                 *)
(***************************************************************************)
WindowPassed(t, reset) == t > reset

\* `Math.ceil(waitTime / 1000)` for waitTime >= 0
CeilSeconds(waitTime) == (waitTime + 999) \div 1000

\* the test with `>` for `>=`
Exhausted_Strict(count, lim) == count > lim

Exhausted(count, lim) == count >= lim

\* the check that never throws
checkRateLimit_Silent(count, reset, t) ==
    LET c1 == IF WindowPassed(t, reset) THEN 0 ELSE count
        r1 == IF WindowPassed(t, reset) THEN t + window ELSE reset
    IN  [count |-> c1, reset |-> r1, throws |-> FALSE, seconds |-> 0]

checkRateLimit(count, reset, t) ==
    LET c1 == IF WindowPassed(t, reset) THEN 0 ELSE count
        r1 == IF WindowPassed(t, reset) THEN t + window ELSE reset
    IN  [count |-> c1, reset |-> r1, throws |-> Exhausted(c1, limit),
         seconds |-> CeilSeconds(r1 - t)]

(***************************************************************************)
(* The retry loop of request                                               *)
(***************************************************************************)
\* the loop test with `<=` for `<`
LoopGuard_Inclusive(attempt, n) == attempt <= n

\* `attempt < this.config.retries`
LoopGuard(attempt, n) == attempt < n

\* a delay after every failed attempt, the last one too
BackoffGuard_Always(attempt, n) == attempt < n

\* `attempt < this.config.retries - 1`
BackoffGuard(attempt, n) == attempt < n - 1

\* `Math.pow(2, attempt) * 1000`
BackoffWait(attempt) == (2 ^ attempt) * 1000

\* the increment left out
CountAttempt_Lost(count) == count

\* `this.requestCount++` at the head of an attempt
CountAttempt(count) == count + 1

\* request returns or throws: its locals are gone
Return(call) == [call EXCEPT !.attempt = 0, !.lastError = << >>]

\* a loop that has no exit: with its attempts used up the invocation waits on
LoopHead_NoExit(call, attempt, count) ==
    IF LoopGuard(attempt, retries)
    THEN [call |-> [call EXCEPT !.pc = "fetch", !.attempt = attempt,
                                !.attempts = @ + 1],
          count |-> CountAttempt(count)]
    ELSE [call |-> [call EXCEPT !.pc = "backoff"], count |-> count]

\* the head of the loop with the loop variable at `attempt`: either the next
\* attempt is counted and its fetch begins, or the loop ends and lastError
\* is thrown
LoopHead(call, attempt, count) ==
    IF LoopGuard(attempt, retries)
    THEN [call |-> [call EXCEPT !.pc = "fetch", !.attempt = attempt,
                                !.attempts = @ + 1],
          count |-> CountAttempt(count)]
    ELSE [call |-> Return([call EXCEPT !.pc = "failed", !.error = call.lastError]),
          count |-> count]

(***************************************************************************)
(* Readings of the clock in the pipeline: the clock has not moved, or it   *)
(* has moved to the end of the rate-limit window, just past it, or just    *)
(* past the expiry of an entry.                                            *)
(***************************************************************************)
Thresholds == {resetTime} \cup {cache[i].expiresAt : i \in 1..Len(cache)}

HttpReadings ==
    {now} \cup
    (IF advances < MaxAdvances
     THEN {t \in {resetTime} \cup {x + 1 : x \in Thresholds} : t > now}
     ELSE {})

Advanced(t) == IF t > now THEN advances + 1 ELSE advances

(***************************************************************************)
(* request(endpoint, options) up to its first suspension                   *)
(***************************************************************************)
NoUse == [first |-> 0, retried |-> 0]

FreeTask(c) == calls[c].pc \in {"idle", "done", "failed"}

\* A settled invocation is on record until the next step of the pipeline
Others ==
    [d \in Tasks |-> IF calls[d].pc \in {"done", "failed"} THEN IdleCall ELSE calls[d]]

\* the invocation on record as settled has failed
AfterFailure == \E d \in Tasks : calls[d].pc = "failed"

StartRequest(c, endpoint, method) ==
    /\ FreeTask(c)
    /\ \A d \in Tasks : d < c => ~FreeTask(d)
    /\ started < MaxCalls
    /\ started' = started + 1
    /\ \E t1 \in HttpReadings : \E t2 \in ClockAgain(t1) : \E t3 \in ClockAgain(t2) :
         LET key == RequestKey(endpoint, method)
             r == IF IsRead(method) THEN CacheGet(Self, key, t1, t2)
                  ELSE [obj |-> Self, ret |-> JNull, hit |-> FALSE]
             new == [IdleCall EXCEPT !.endpoint = endpoint, !.method = method,
                                     !.cacheKey = key,
                                     !.afterFailure = AfterFailure,
                                     !.purged = Len(r.obj.cache) < Len(cache),
                                     !.fresh = IF r.hit THEN <<r.ret>> ELSE << >>]
             rl == checkRateLimit(requestCount, resetTime, t3)
             ep == IF rl.reset # resetTime THEN epoch + 1 ELSE epoch
             use == IF rl.reset # resetTime THEN NoUse ELSE windowUse
             go == LoopHead([new EXCEPT !.admitted = TRUE, !.slot = rl.count, !.epoch = ep],
                            0, rl.count)
         IN  /\ Install(r.obj)
             /\ useOrder' = IF r.hit THEN Touch(useOrder, key)
                            ELSE Resident(useOrder, r.obj.cache)
             /\ IF IsRead(method) /\ ToBoolean(r.ret)
                THEN /\ calls' = [Others EXCEPT ![c] = [new EXCEPT !.pc = "done", !.result = r.ret]]
                     /\ now' = t2
                     /\ advances' = Advanced(t2)
                     /\ UNCHANGED <<requestCount, resetTime, epoch, windowUse>>
                ELSE /\ now' = t3
                     /\ advances' = Advanced(t3)
                     /\ resetTime' = rl.reset
                     /\ epoch' = ep
                     /\ IF rl.throws
                        THEN /\ calls' = [Others EXCEPT ![c] =
                                            [new EXCEPT !.pc = "failed", !.epoch = ep,
                                                        !.error = <<RateLimitFailure(rl.seconds)>>]]
                             /\ requestCount' = rl.count
                             /\ windowUse' = use
                        ELSE /\ calls' = [Others EXCEPT ![c] = go.call]
                             /\ requestCount' = go.count
                             /\ windowUse' = IF go.call.pc = "fetch"
                                             THEN [use EXCEPT !.first = @ + 1] ELSE use
    /\ UNCHANGED <<maxSize, lastOp, configVars>>

\* request called on its own
Start(c, endpoint, method) == StartRequest(c, endpoint, method) /\ UNCHANGED sideVars

(***************************************************************************)
(* request resumed by the outcome of `await fetch(...)` and of reading the *)
(* body: a parsed JSON value, or an error (network failure, timeout,       *)
(* non-2xx status, unparsable body)                                        *)
(***************************************************************************)
Fetched(c, data) ==
    /\ calls[c].pc = "fetch"
    /\ calls' = [Others EXCEPT ![c] = Return([calls[c] EXCEPT !.pc = "done", !.result = data,
                                                          !.answer = <<data>>])]
    /\ IF IsRead(calls[c].method)
       THEN \E t1 \in HttpReadings : \E t2 \in ClockAgain(t1) : \E t3 \in ClockAgain(t2) :
              LET o == CacheSet(Self, maxSize, calls[c].cacheKey, data,
                                <<getCacheTTL(calls[c].endpoint)>>, t1, t2, t3)
              IN  /\ Install(o)
                  /\ useOrder' = Touch(Resident(useOrder, o.cache), calls[c].cacheKey)
                  /\ now' = t3
                  /\ advances' = Advanced(t3)
       ELSE UNCHANGED <<now, advances, cache, accessTimes, metrics, useOrder>>
    /\ UNCHANGED <<maxSize, lastOp, configVars, requestCount, resetTime, started, epoch,
                   windowUse>>

FetchSucceeds(c, data) == Fetched(c, data) /\ UNCHANGED sideVars

\* a further attempt of an invocation is charged to the current window
Retried(call) ==
    IF call.pc = "fetch" THEN [windowUse EXCEPT !.retried = @ + 1] ELSE windowUse

FetchFailed(c) ==
    /\ calls[c].pc = "fetch"
    /\ LET err == TransportFailure(calls[c].attempts)
           caught == [calls[c] EXCEPT !.lastError = <<err>>, !.lastFail = <<err>>,
                                      !.fails = @ + 1]
       IN  IF BackoffGuard(caught.attempt, retries)
           THEN /\ calls' = [Others EXCEPT ![c] =
                               [caught EXCEPT !.pc = "backoff",
                                              !.delays = Append(@, BackoffWait(caught.attempt))]]
                /\ UNCHANGED <<requestCount, windowUse>>
           ELSE LET go == LoopHead(caught, caught.attempt + 1, requestCount)
                IN  /\ calls' = [Others EXCEPT ![c] = go.call]
                    /\ requestCount' = go.count
                    /\ windowUse' = Retried(go.call)
    /\ UNCHANGED <<now, cacheVars, configVars, resetTime, started, epoch, advances>>

FetchFails(c) == FetchFailed(c) /\ UNCHANGED sideVars

\* the backoff timer fires: the loop variable is incremented and the loop
\* goes round.  The segment does not read the clock; the length of the wait
\* is in the call's `delays`.
BackedOff(c) ==
    /\ calls[c].pc = "backoff"
    /\ LET go == LoopHead(calls[c], calls[c].attempt + 1, requestCount)
       IN  /\ calls' = [Others EXCEPT ![c] = go.call]
           /\ requestCount' = go.count
           /\ windowUse' = Retried(go.call)
    /\ UNCHANGED <<now, cacheVars, configVars, resetTime, started, epoch, advances>>

BackoffDone(c) == BackedOff(c) /\ UNCHANGED sideVars

(***************************************************************************)
(* Specification of the pipeline: one HttpClient over the global cache,    *)
(* with NumTasks invocations of request in flight at a time                *)
(***************************************************************************)
\* nothing is under study beside the pipeline
InitSide ==
    /\ callArgs = << >>
    /\ callRet = << >>
    /\ InitCollector
    /\ workload = "none"

InitClient ==
    /\ requestCount = 0
    /\ resetTime = now + window
    /\ calls = [c \in Tasks |-> IdleCall]
    /\ started = 0
    /\ epoch = 0
    /\ windowUse = NoUse
    /\ advances = 0

\* the configurations: a cache that holds every key of the workload under
\* each setting of the client, and a cache of one entry
InitHttp ==
    /\ now = 0
    /\ InitCache
    /\ \/ maxSize = MaxCapacity /\ retries \in RetryChoices /\ limit \in LimitChoices
       \/ maxSize = 1 /\ retries = 1 /\ limit = MaxLimit
    /\ window \in WindowChoices
    /\ InitClient
    /\ InitSide

NextHttp ==
    \/ \E c \in Tasks, e \in Endpoints, m \in Methods : Start(c, e, m)
    \/ \E c \in Tasks, v \in Responses : FetchSucceeds(c, v)
    \/ \E c \in Tasks : FetchFails(c)
    \/ \E c \in Tasks : BackoffDone(c)

SpecHttp == InitHttp /\ [][NextHttp]_vars

(***************************************************************************)
(* The pipeline with the server's periodic cleanup: the interval timer     *)
(* fires between two segments of the invocations in flight, no earlier     *)
(* than one period after the start.                                        *)
(***************************************************************************)
CleanupPeriod == 600000

CleanupTimer ==
    /\ \E t \in {x \in HttpReadings : x >= CleanupPeriod} :
         LET r == CacheCleanup(Self, t)
         IN  /\ Install(r.obj)
             /\ now' = t
             /\ advances' = Advanced(t)
             /\ useOrder' = Resident(useOrder, r.obj.cache)
             /\ lastOp' = [NoOp EXCEPT !.op = "cleanup", !.num = r.cleaned, !.at = t]
             /\ collector' = updateCacheMetrics(collector, getStats(r.obj))
    /\ UNCHANGED <<maxSize, configVars, requestCount, resetTime, calls, started, epoch,
                   windowUse, callArgs, server, callRet, report, recorded, workload>>

InitTimer ==
    /\ now = 0
    /\ InitCache
    /\ maxSize = MaxCapacity
    /\ retries \in {1, 2}
    /\ limit = MaxLimit
    /\ window \in WindowChoices
    /\ InitClient
    /\ InitSide

NextTimer ==
    \/ NextHttp
    \/ CleanupTimer

SpecTimer == InitTimer /\ [][NextTimer]_vars

(***************************************************************************)
(* Specification of the cache alone                                        *)
(***************************************************************************)
Init ==
    /\ now = 0
    /\ InitCache
    /\ retries = 1
    /\ limit = 1
    /\ window \in WindowChoices
    /\ InitClient
    /\ InitSide

Next ==
    \/ \E k \in Keys, v \in CacheValues, ttl \in TTLArgs : Set(k, v, ttl)
    \/ \E k \in Keys : Get(k)
    \/ \E k \in Keys : Has(k)
    \/ \E k \in Keys : Delete(k)
    \/ Cleanup
    \/ Clear

Spec == Init /\ [][Next]_vars

(***************************************************************************)
(* C1: after any set returns, the number of resident entries is at most    *)
(* maxSize.                                                                *)
(***************************************************************************)
C1_CapacityAfterSet == lastOp.op = "set" => Len(cache) <= maxSize

(***************************************************************************)
(* C2: the entry a set removes to make room is the one whose most recent   *)
(* use (its set, or a get that returned it) is the oldest in the order of  *)
(* the operations, whatever the clock read at each of them.                *)
(***************************************************************************)
C2_LRUVictim ==
    [][metrics'.evictions = metrics.evictions + 1
         => MapKeys(cache) \ MapKeys(cache') = {Head(useOrder)}]_vars

(***************************************************************************)
(* Specifications of the pure functions.  The pipeline is idle; Init draws *)
(* the arguments and the one action applies the function.                  *)
(***************************************************************************)
InitIdle ==
    /\ now = 0
    /\ InitCache
    /\ maxSize = MaxCapacity
    /\ retries = 1
    /\ limit = 1
    /\ window \in WindowChoices
    /\ InitClient

\* the properties a caller puts into `params`; a name occurs once in an object
ParamNames == {<< >>, <<"a">>, <<"b">>, <<"a", "b">>}
ParamValues == {<< >>, <<"b">>}
Properties == [name : ParamNames, value : ParamValues]

Objects ==
    UNION {{o \in [1..n -> Properties] :
               \A i, j \in 1..n : o[i].name = o[j].name => i = j} : n \in 0..MaxParams}

\* the same properties, inserted in some order
SamePairs(p, q) ==
    Len(p) = Len(q) /\ {p[i] : i \in 1..Len(p)} = {q[i] : i \in 1..Len(q)}

InitKey ==
    /\ InitIdle
    /\ InitCollector
    /\ workload = "none"
    /\ callArgs \in {[apiName |-> S_github, endpoint |-> e,
                         params |-> pq[1], permuted |-> pq[2]] :
                        e \in Endpoints,
                        pq \in {x \in Objects \X Objects : SamePairs(x[1], x[2])}}
    /\ callRet = << >>

\* generateKey is applied to both objects
ApplyGenerateKey ==
    /\ callRet = << >>
    /\ callRet' = <<generateKey(callArgs.apiName, callArgs.endpoint, callArgs.params),
                    generateKey(callArgs.apiName, callArgs.endpoint, callArgs.permuted)>>
    /\ UNCHANGED <<now, cacheVars, httpVars, callArgs, server, collectorVars>>

NextKey == ApplyGenerateKey

SpecKey == InitKey /\ [][NextKey]_vars

\* endpoints made of the fragments that getCacheTTL looks for
Fragments == {<<"a">>, S_users, S_repos, S_reposSlash, S_issues, S_search}

RECURSIVE Concat(_)
Concat(parts) == IF parts = << >> THEN << >> ELSE Head(parts) \o Concat(Tail(parts))

TTLEndpoints ==
    {Concat(parts) : parts \in UNION {[1..n -> Fragments] : n \in 0..MaxFragments}}

InitTTL ==
    /\ InitIdle
    /\ InitCollector
    /\ workload = "none"
    /\ callArgs \in [endpoint : TTLEndpoints]
    /\ callRet = << >>

\* the end of a successful read of the endpoint:
\* `this.cache.set(cacheKey, data, this.getCacheTTL(endpoint))`
ApplyGetCacheTTL ==
    /\ callRet = << >>
    /\ LET ttl == getCacheTTL(callArgs.endpoint)
           key == RequestKey(callArgs.endpoint, << >>)
           o == CacheSet(Self, maxSize, key, JObj(1), <<ttl>>, now, now, now)
       IN  /\ Install(o)
           /\ useOrder' = Touch(Resident(useOrder, o.cache), key)
           /\ callRet' = <<ttl>>
    /\ UNCHANGED <<now, maxSize, lastOp, httpVars, callArgs, server, collectorVars>>

NextTTL == ApplyGetCacheTTL

SpecTTL == InitTTL /\ [][NextTTL]_vars

(***************************************************************************)
(* Specification of the collector.  Every record is taken at a later       *)
(* reading of the clock.  Two workloads: a short one of successes and      *)
(* failures of several calls, durations and error kinds, with resets; and  *)
(* a long one of successes that overflows the history.                     *)
(***************************************************************************)
T_getUser ==
    <<"g", "i", "t", "h", "u", "b", "-", "g", "e", "t", "-", "u", "s", "e", "r">>
T_getMetrics ==
    <<"m", "c", "p", "-", "g", "e", "t", "-", "m", "e", "t", "r", "i", "c", "s">>

S_weather == <<"w", "e", "a", "t", "h", "e", "r">>
S_news == <<"n", "e", "w", "s">>

ToolNames == {T_getUser, T_getMetrics}
\* the apis of config.apis whose calls are recorded
ApiNames == {S_github, S_weather}
Durations == {0, 3}
ThrownErrors ==
    {TransportFailure(1), [TransportFailure(1) EXCEPT !.name = "ValidationError"],
     [TransportFailure(1) EXCEPT !.name = ""]}

RunLength == IF workload = "long" THEN LongRun ELSE MaxRecords

\* in the long workload every call is the same
ToolsGiven == IF workload = "long" THEN {T_getUser} ELSE ToolNames
DurationsGiven == IF workload = "long" THEN {1} ELSE Durations
ApisGiven == IF workload = "long" THEN {S_github} ELSE ApiNames

InitMetrics ==
    /\ InitIdle
    /\ callArgs = << >>
    /\ callRet = << >>
    /\ InitCollector
    /\ workload \in {"mixed", "long"}

RecordSuccess(api, tool, d) ==
    /\ now < RunLength
    /\ now' = now + 1
    /\ LET ctx == startRequest(api, tool, now' - d)
           m == recordSuccess(collector, ctx, now', now')
       IN  /\ collector' = m
           /\ recorded' = [recorded EXCEPT
                              !.successes = @ + 1,
                              !.folded = Append(@, [duration |-> d, timestamp |-> now'])]
    /\ report' = << >>
    /\ UNCHANGED <<cacheVars, httpVars, callArgs, server, callRet, workload>>

RecordFailure(api, tool, error) ==
    /\ workload = "mixed"
    /\ now < RunLength
    /\ now' = now + 1
    /\ collector' = recordFailure(collector, startRequest(api, tool, now), error)
    /\ recorded' = [recorded EXCEPT !.failures = @ + 1]
    /\ report' = << >>
    /\ UNCHANGED <<cacheVars, httpVars, callArgs, server, callRet, workload>>

GetReport ==
    /\ report' = <<getReport(collector)>>
    /\ UNCHANGED <<now, cacheVars, httpVars, callArgs, server, callRet, collector, recorded,
                   workload>>

Reset ==
    /\ workload = "mixed"
    /\ collector' = NewCollector
    /\ recorded' = NothingRecorded
    /\ report' = << >>
    /\ UNCHANGED <<now, cacheVars, httpVars, callArgs, server, callRet, workload>>

NextMetrics ==
    \/ \E api \in ApisGiven, tool \in ToolsGiven, d \in DurationsGiven :
         RecordSuccess(api, tool, d)
    \/ \E api \in ApisGiven, tool \in ToolsGiven, e \in ThrownErrors :
         RecordFailure(api, tool, e)
    \/ GetReport
    \/ Reset

SpecMetrics == InitMetrics /\ [][NextMetrics]_vars

(***************************************************************************)
(* The options of the outbound request (HttpClient.request, before the     *)
(* retry loop).  An object literal is built left to right: a later         *)
(* property of the same name replaces the value and keeps the position.    *)
(***************************************************************************)
H_UserAgent == <<"U", "s", "e", "r", "-", "A", "g", "e", "n", "t">>
H_Accept == <<"A", "c", "c", "e", "p", "t">>
H_ContentType == <<"C", "o", "n", "t", "e", "n", "t", "-", "T", "y", "p", "e">>
H_Authorization == <<"A", "u", "t", "h", "o", "r", "i", "z", "a", "t", "i", "o", "n">>
H_ApiKey == <<"X", "-", "A", "P", "I", "-", "K", "e", "y">>
H_Trace == <<"X", "-", "T", "r", "a", "c", "e">>
V_json == <<"a", "p", "p", "l", "i", "c", "a", "t", "i", "o", "n", "/", "j", "s", "o", "n">>
V_agent == <<"U", "n", "i", "v", "e", "r", "s", "a", "l", "-", "A", "P", "I", "-", "G", "a", "t", "e", "w", "a", "y", "-", "M", "C", "P", "/", "1", ".", "0", ".", "0">>

DefaultHeaders ==
    <<[name |-> H_UserAgent, value |-> V_agent],
      [name |-> H_Accept, value |-> V_json],
      [name |-> H_ContentType, value |-> V_json]>>

\* a string of the environment is used when it is set and not empty
EnvSet(v) == v # << >> /\ v[1] # << >>

getAuthHeaders(apiName, authType, env) ==
    CASE authType = "token" ->
             IF apiName = S_github /\ EnvSet(env.GITHUB_TOKEN)
             THEN <<[name |-> H_Authorization,
                     value |-> <<"B", "e", "a", "r", "e", "r", " ">> \o env.GITHUB_TOKEN[1]]>>
             ELSE << >>
      [] authType = "apiKey" ->
             IF apiName = S_weather /\ EnvSet(env.WEATHER_API_KEY)
             THEN <<[name |-> H_ApiKey, value |-> env.WEATHER_API_KEY[1]]>>
             ELSE IF apiName = S_news /\ EnvSet(env.NEWS_API_KEY)
             THEN <<[name |-> H_ApiKey, value |-> env.NEWS_API_KEY[1]]>>
             ELSE << >>
      [] OTHER -> << >>

\* `{ ...defaults, ...this.getAuthHeaders(), ...options.headers }`
MergedHeaders(auth, options) ==
    Spread(Spread(DefaultHeaders, auth),
           IF options.headers = << >> THEN << >> ELSE options.headers[1])

\* `{ method, headers, body, timeout, ...options }`: a property of `options`
\* replaces the property of the same name written before the spread
requestOptions(auth, options) ==
    [method |-> MethodOrGet(options.method),
     headers |-> IF options.headers = << >>
                 THEN MergedHeaders(auth, options) ELSE options.headers[1]]

\* the headers a caller supplies: an override of a default, of the
\* authentication, and a header of its own
CallerHeaderNames == {H_Accept, H_Authorization, H_Trace}
CallerHeaderValues == {<<"a">>, <<"b">>}
CallerHeaders ==
    UNION {{o \in [1..n -> [name : CallerHeaderNames, value : CallerHeaderValues]] :
               \A i, j \in 1..n : o[i].name = o[j].name => i = j} : n \in 0..MaxHeaders}

Environments ==
    [GITHUB_TOKEN : {<< >>, <<<< >>>>, <<<<"t">>>>},
     WEATHER_API_KEY : {<< >>, <<<<"k">>>>},
     NEWS_API_KEY : {<< >>}]

InitHeaders ==
    /\ InitIdle
    /\ InitCollector
    /\ workload = "none"
    /\ callArgs \in [apiName : {S_github, S_weather},
                     authType : {"token", "apiKey", "none"},
                     env : Environments,
                     options : [method : {<< >>, <<S_POST>>},
                                headers : {<< >>} \cup {<<h>> : h \in CallerHeaders}]]
    /\ callRet = << >>

\* the options handed to fetch
ApplyRequestOptions ==
    /\ callRet = << >>
    /\ callRet' = <<requestOptions(
                        getAuthHeaders(callArgs.apiName, callArgs.authType, callArgs.env),
                        callArgs.options)>>
    /\ UNCHANGED <<now, cacheVars, httpVars, callArgs, server, collectorVars>>

NextHeaders == ApplyRequestOptions

SpecHeaders == InitHeaders /\ [][NextHeaders]_vars

(***************************************************************************)
(* HttpClient.get(endpoint, params): the parameters are serialized into    *)
(* the endpoint by URLSearchParams, in the order of the object's           *)
(* properties, and request is called with the endpoint alone.              *)
(***************************************************************************)
\* application/x-www-form-urlencoded: letters and digits stay, the space
\* becomes "+", the other characters of the model are percent-encoded
FormEncodeUnit(ch) ==
    CASE ch = " " -> <<"+">>
      [] ch = "&" -> <<"%", "2", "6">>
      [] ch = "/" -> <<"%", "2", "F">>
      [] ch = ":" -> <<"%", "3", "A">>
      [] ch = "=" -> <<"%", "3", "D">>
      [] ch = "?" -> <<"%", "3", "F">>
      [] OTHER -> <<ch>>

FormEncode(s) == Concat([i \in 1..Len(s) |-> FormEncodeUnit(s[i])])

\* `new URLSearchParams(params).toString()`
QueryString(params) ==
    Concat([i \in 1..Len(params) |->
               (IF i = 1 THEN << >> ELSE <<"&">>)
                   \o FormEncode(params[i].name) \o <<"=">> \o FormEncode(params[i].value)])

FullEndpoint(endpoint, params) ==
    LET queryString == QueryString(params)
    IN  IF queryString = << >> THEN endpoint ELSE endpoint \o <<"?">> \o queryString

\* the cache key of `get(endpoint, params)`
GetKey(endpoint, params) == RequestKey(FullEndpoint(endpoint, params), << >>)

\* get(endpoint, params) runs to its end with a response from the
\* dependency, then get(endpoint, permuted) reads the cache
ApplyGet ==
    /\ callRet = << >>
    /\ LET full == FullEndpoint(callArgs.endpoint, callArgs.params)
           key1 == GetKey(callArgs.endpoint, callArgs.params)
           key2 == GetKey(callArgs.endpoint, callArgs.permuted)
           o == CacheSet(CacheGet(Self, key1, now, now).obj, maxSize, key1, JObj(1),
                         <<getCacheTTL(full)>>, now, now, now)
           r == CacheGet(o, key2, now, now)
       IN  /\ Install(r.obj)
           /\ useOrder' = Touch(Resident(useOrder, r.obj.cache), key1)
           /\ callRet' = <<key1, key2, r.hit /\ ToBoolean(r.ret)>>
    /\ UNCHANGED <<now, maxSize, lastOp, httpVars, callArgs, server, collectorVars>>

NextGet == ApplyGet

SpecGet == InitKey /\ [][NextGet]_vars

(***************************************************************************)
(* Input validation (validator.js).  A validator returns the error it      *)
(* throws, << >> when it returns normally.  Arguments are JSON values; a   *)
(* missing property is JNull.                                              *)
(***************************************************************************)
Letters ==
    {"a", "b", "c", "d", "e", "f", "g", "h", "i", "j", "k", "l", "m", "n", "o", "p", "q",
     "r", "s", "t", "u", "v", "w", "x", "y", "z", "A", "B", "C", "D", "E", "F", "G", "H",
     "I", "J", "K", "L", "M", "N", "O", "P", "Q", "R", "S", "T", "U", "V", "W", "X", "Y",
     "Z"}

\* [a-zA-Z0-9]
IsAlnum(ch) == ch \in Letters \/ \E i \in 1..10 : DigitChars[i] = ch

\* `value.trim() === ''`
Blank(s) == \A i \in 1..Len(s) : s[i] = " "

\* `new ValidationError(message, field)`
ValidationFailure(message, field) ==
    [name |-> "ValidationError", msg |-> message, field |-> <<field>>, attempt |-> 0]

validateRequired(value, fieldName) ==
    IF ~ToBoolean(value) \/ (value.t = "str" /\ Blank(value.s))
    THEN <<ValidationFailure(fieldName \o <<" ", "i", "s", " ", "r", "e", "q", "u", "i",
                                              "r", "e", "d">>, fieldName)>>
    ELSE << >>

validateString(value, fieldName, minLength, maxLength) ==
    IF validateRequired(value, fieldName) # << >> THEN validateRequired(value, fieldName)
    ELSE IF value.t # "str"
    THEN <<ValidationFailure(fieldName \o <<" ", "m", "u", "s", "t", " ", "b", "e", " ",
                                              "a", " ", "s", "t", "r", "i", "n", "g">>, fieldName)>>
    ELSE IF Len(value.s) < minLength
    THEN <<ValidationFailure(fieldName \o <<" ", "m", "u", "s", "t", " ", "b", "e", " ",
                                              "a", "t", " ", "l", "e", "a", "s", "t", " ">> \o Digits(minLength)
                                 \o <<" ", "c", "h", "a", "r", "a", "c", "t", "e", "r",
                                        "s", " ", "l", "o", "n", "g">>, fieldName)>>
    ELSE IF Len(value.s) > maxLength
    THEN <<ValidationFailure(fieldName \o <<" ", "m", "u", "s", "t", " ", "b", "e", " ",
                                              "n", "o", " ", "m", "o", "r", "e", " ", "t",
                                              "h", "a", "n", " ">> \o Digits(maxLength)
                                 \o <<" ", "c", "h", "a", "r", "a", "c", "t", "e", "r",
                                        "s", " ", "l", "o", "n", "g">>, fieldName)>>
    ELSE << >>

\* /^[a-zA-Z0-9]([a-zA-Z0-9]|-(?=[a-zA-Z0-9])){0,38}$/
UsernamePattern(s) ==
    /\ Len(s) \in 1..39
    /\ IsAlnum(s[1])
    /\ \A i \in 2..Len(s) : IsAlnum(s[i]) \/ (s[i] = "-" /\ i < Len(s) /\ IsAlnum(s[i + 1]))

\* /^[a-zA-Z0-9._-]+$/
RepoPattern(s) ==
    /\ Len(s) >= 1
    /\ \A i \in 1..Len(s) : IsAlnum(s[i]) \/ s[i] \in {".", "_", "-"}

validateGitHubUsername(username) ==
    LET fieldName == <<"u", "s", "e", "r", "n", "a", "m", "e">>
    IN  IF validateString(username, fieldName, 1, 39) # << >>
        THEN validateString(username, fieldName, 1, 39)
        ELSE IF ~UsernamePattern(username.s)
        THEN <<ValidationFailure(
                 <<"U", "s", "e", "r", "n", "a", "m", "e", " ", "m", "a", "y", " ", "o",
                     "n", "l", "y", " ", "c", "o", "n", "t", "a", "i", "n", " ", "a", "l",
                     "p", "h", "a", "n", "u", "m", "e", "r", "i", "c", " ", "c", "h", "a",
                     "r", "a", "c", "t", "e", "r", "s", " ", "o", "r", " ", "s", "i", "n",
                     "g", "l", "e", " ", "h", "y", "p", "h", "e", "n", "s", ",", " ", "a",
                     "n", "d", " ", "c", "a", "n", "n", "o", "t", " ", "b", "e", "g", "i",
                     "n", " ", "o", "r", " ", "e", "n", "d", " ", "w", "i", "t", "h", " ",
                     "a", " ", "h", "y", "p", "h", "e", "n">>,
                 fieldName)>>
        ELSE << >>

validateGitHubRepo(repo) ==
    LET fieldName == <<"r", "e", "p", "o", "s", "i", "t", "o", "r", "y">>
    IN  IF validateString(repo, fieldName, 1, 100) # << >>
        THEN validateString(repo, fieldName, 1, 100)
        ELSE IF ~RepoPattern(repo.s)
        THEN <<ValidationFailure(
                 <<"R", "e", "p", "o", "s", "i", "t", "o", "r", "y", " ", "n", "a", "m",
                     "e", " ", "m", "a", "y", " ", "o", "n", "l", "y", " ", "c", "o", "n",
                     "t", "a", "i", "n", " ", "a", "l", "p", "h", "a", "n", "u", "m", "e",
                     "r", "i", "c", " ", "c", "h", "a", "r", "a", "c", "t", "e", "r", "s",
                     ",", " ", "p", "e", "r", "i", "o", "d", "s", ",", " ", "h", "y", "p",
                     "h", "e", "n", "s", ",", " ", "a", "n", "d", " ", "u", "n", "d", "e",
                     "r", "s", "c", "o", "r", "e", "s">>,
                 fieldName)>>
        ELSE << >>

RECURSIVE Split(_, _)
\* String.prototype.split with a separator of one character
Split(s, sep) ==
    IF \A i \in 1..Len(s) : s[i] # sep THEN <<s>>
    ELSE LET k == CHOOSE i \in 1..Len(s) : s[i] = sep /\ \A j \in 1..(i - 1) : s[j] # sep
         IN  <<SubSeq(s, 1, k - 1)>> \o Split(SubSeq(s, k + 1, Len(s)), sep)

\* `const [owner, repo] = ownerRepo.split('/')`: the first two segments
validateGitHubOwnerRepo(ownerRepo) ==
    LET fieldName == <<"o", "w", "n", "e", "r", "/", "r", "e", "p", "o">>
    IN  IF validateString(ownerRepo, fieldName, 1, 1000) # << >>
        THEN validateString(ownerRepo, fieldName, 1, 1000)
        ELSE IF ~Includes(ownerRepo.s, <<"/">>)
        THEN <<ValidationFailure(<<"F", "o", "r", "m", "a", "t", " ", "m", "u", "s", "t",
                                     " ", "b", "e", " ", "\"", "o", "w", "n", "e", "r",
                                     "/", "r", "e", "p", "o", "s", "i", "t", "o", "r", "y",
                                     "\"">>, fieldName)>>
        ELSE LET parts == Split(ownerRepo.s, "/")
                 owner == JStr(parts[1])
                 repo == JStr(parts[2])
             IN  IF validateGitHubUsername(owner) # << >> THEN validateGitHubUsername(owner)
                 ELSE validateGitHubRepo(repo)

(***************************************************************************)
(* handleApiError(error, apiName): the failure result of a GitHubAPI       *)
(* operation.  `field` and `retryAfter` are << >> when the result has no   *)
(* such property.                                                          *)
(***************************************************************************)
handleApiError(error, apiName) ==
    LET plain == [success |-> FALSE, data |-> JNull, error |-> "API request failed",
                  message |-> error.msg, field |-> << >>, retryAfter |-> << >>,
                  apiName |-> apiName]
    IN  IF error.name = "RateLimitError"
        THEN [plain EXCEPT !.error = "Rate limit exceeded", !.retryAfter = error.retryAfter]
        ELSE IF error.name = "ValidationError"
        THEN [plain EXCEPT !.error = "Validation failed", !.field = error.field]
        ELSE IF Includes(error.msg, <<"H", "T", "T", "P", " ", "4", "0", "1">>)
        THEN [plain EXCEPT !.error = "Authentication failed",
                           !.message = <<"I", "n", "v", "a", "l", "i", "d", " ", "o",
                                           "r", " ", "m", "i", "s", "s", "i", "n", "g",
                                           " ", "A", "P", "I", " ", "c", "r", "e", "d",
                                           "e", "n", "t", "i", "a", "l", "s">>]
        ELSE IF Includes(error.msg, <<"H", "T", "T", "P", " ", "4", "0", "3">>)
        THEN [plain EXCEPT !.error = "Access forbidden",
                           !.message = <<"I", "n", "s", "u", "f", "f", "i", "c", "i",
                                           "e", "n", "t", " ", "p", "e", "r", "m", "i",
                                           "s", "s", "i", "o", "n", "s", " ", "f", "o",
                                           "r", " ", "t", "h", "i", "s", " ", "A", "P",
                                           "I", " ", "e", "n", "d", "p", "o", "i", "n",
                                           "t">>]
        ELSE IF Includes(error.msg, <<"H", "T", "T", "P", " ", "4", "0", "4">>)
        THEN [plain EXCEPT !.error = "Resource not found",
                           !.message = <<"T", "h", "e", " ", "r", "e", "q", "u", "e",
                                           "s", "t", "e", "d", " ", "r", "e", "s", "o",
                                           "u", "r", "c", "e", " ", "d", "o", "e", "s",
                                           " ", "n", "o", "t", " ", "e", "x", "i", "s",
                                           "t">>]
        ELSE IF Includes(error.msg, <<"t", "i", "m", "e", "o", "u", "t">>)
        THEN [plain EXCEPT !.error = "Request timeout",
                           !.message = <<"T", "h", "e", " ", "A", "P", "I", " ", "r",
                                           "e", "q", "u", "e", "s", "t", " ", "t", "i",
                                           "m", "e", "d", " ", "o", "u", "t">>]
        ELSE plain

(***************************************************************************)
(* GitHubAPI: getUserProfile, getRepoInfo, searchRepos.  Each validates    *)
(* its input, calls HttpClient.get and maps the body; whatever is thrown   *)
(* inside becomes a failure result.                                        *)
(*                                                                         *)
(* Bodies of the dependency: JNull, the body `null`; JObj(1), a body with  *)
(* every property the server reads; JObj(2), a body that GitHubAPI maps    *)
(* but in which `topics` is a string and the items carry no `score`.       *)
(***************************************************************************)
T_getRepo == <<"g", "i", "t", "h", "u", "b", "-", "g", "e", "t", "-", "r", "e", "p", "o">>
T_searchRepos ==
    <<"g", "i", "t", "h", "u", "b", "-", "s", "e", "a", "r", "c", "h", "-", "r", "e",
        "p", "o", "s">>
T_clearCache == <<"m", "c", "p", "-", "c", "l", "e", "a", "r", "-", "c", "a", "c", "h",
                    "e">>
T_other == <<"x">>

Bodies == {JNull, JObj(1), JObj(2)}

\* the argument the operation of the tool validates
ToolInput(name, args) ==
    CASE name = T_getUser -> args.username
      [] name = T_getRepo -> args.repository
      [] OTHER -> args.query

Validate(name, input) ==
    CASE name = T_getUser -> validateGitHubUsername(input)
      [] name = T_getRepo -> validateGitHubOwnerRepo(input)
      [] OTHER -> validateString(input, <<"q", "u", "e", "r", "y">>, 1, 256)

\* the endpoint given to request by HttpClient.get
ApiEndpoint(name, input) ==
    CASE name = T_getUser -> FullEndpoint(S_users \o input.s, << >>)
      [] name = T_getRepo -> FullEndpoint(S_reposSlash \o input.s, << >>)
      [] OTHER ->
           FullEndpoint(<<"/", "s", "e", "a", "r", "c", "h", "/", "r", "e", "p", "o",
                            "s", "i", "t", "o", "r", "i", "e", "s">>,
               <<[name |-> <<"q">>, value |-> input.s],
                 [name |-> <<"s", "o", "r", "t">>, value |-> <<"s", "t", "a", "r", "s">>],
                 [name |-> <<"o", "r", "d", "e", "r">>, value |-> <<"d", "e", "s", "c">>],
                 [name |-> <<"p", "e", "r", "_", "p", "a", "g", "e">>, value |-> Digits(30)],
                 [name |-> <<"p", "a", "g", "e">>, value |-> Digits(1)]>>)

\* a property of `null` is read
NullDereference ==
    [name |-> "TypeError",
     msg |-> <<"C", "a", "n", "n", "o", "t", " ", "r", "e", "a", "d", " ", "p", "r", "o",
                 "p", "e", "r", "t", "i", "e", "s", " ", "o", "f", " ", "n", "u", "l", "l">>,
     attempt |-> 0]

\* a method that the value does not have is called
NotAFunction ==
    [name |-> "TypeError", msg |-> <<"i", "s", " ", "n", "o", "t", " ", "a", " ", "f",
                                       "u", "n", "c", "t", "i", "o", "n">>, attempt |-> 0]

\* the mapping of the body throws: `data.id`, `data.owner.id`, `data.items.map`
MappingThrows(name, data) == data.t = "null"

\* the result of the operation after request has returned `data`
ApiSuccess(name, data) ==
    IF MappingThrows(name, data) THEN handleApiError(NullDereference, S_github)
    ELSE [success |-> TRUE, data |-> data, error |-> "", message |-> << >>,
          field |-> << >>, retryAfter |-> << >>, apiName |-> S_github]

(***************************************************************************)
(* The handler of a tool call (CallToolRequestSchema).  `records` lists    *)
(* the recordings made for the call, in order.                             *)
(***************************************************************************)
\* the text of a success is built after recordSuccess: `topics.join(', ')`,
\* `repo.score.toFixed(2)`
RenderThrows(name, data) == name \in {T_getRepo, T_searchRepos} /\ data = JObj(2)

\* the handler's catch
Caught(m, ctx, error, records) ==
    [collector |-> recordFailure(m, ctx, error), records |-> Append(records, "failure"),
     isError |-> TRUE, success |-> FALSE, error |-> "", field |-> << >>,
     retryAfter |-> << >>]

\* a github tool after its operation has returned `result`, at the reading t
AfterOperation(m, ctx, name, result, t) ==
    IF result.success
    THEN LET m1 == recordSuccess(m, ctx, t, t)
         IN  IF RenderThrows(name, result.data)
             THEN [Caught(m1, ctx, NotAFunction, <<"success">>) EXCEPT !.success = TRUE]
             ELSE [collector |-> m1, records |-> <<"success">>, isError |-> FALSE,
                   success |-> TRUE, error |-> "", field |-> << >>, retryAfter |-> << >>]
    ELSE [collector |-> m, records |-> << >>, isError |-> FALSE, success |-> FALSE,
          error |-> result.error, field |-> result.field, retryAfter |-> result.retryAfter]

(***************************************************************************)
(* The server: tool calls handled over one GitHubAPI, its client and the   *)
(* collector.  A call runs to its first suspension, which is the fetch of  *)
(* request; the continuations of getUserProfile (and the like) and of the  *)
(* handler run when request settles, before any other event is taken.      *)
(* The collector reads the clock as the segment of request left it.        *)
(***************************************************************************)
\* `arguments` of the request: << >> when the caller gives none
NoArguments ==
    [username |-> JNull, repository |-> JNull, query |-> JNull, confirm |-> JNull,
     includeCache |-> JNull]

ToolArguments(name) ==
    {<< >>} \cup
    {<<a>> : a \in
        CASE name = T_getUser ->
                 {[NoArguments EXCEPT !.username = v] :
                     v \in {JNull, JStr(<<"a">>), JStr(<<"-">>)}}
          [] name = T_getRepo ->
                 {[NoArguments EXCEPT !.repository = v] :
                     v \in {JStr(<<"a">>), JStr(<<"a", "/", "b">>),
                            JStr(<<"a", "/", "b", "/", "c">>)}}
          [] name = T_searchRepos ->
                 {[NoArguments EXCEPT !.query = v] : v \in {JStr(<<" ">>), JStr(<<"a">>)}}
          [] name = T_clearCache ->
                 {[NoArguments EXCEPT !.confirm = v] : v \in {JNull, JBool(FALSE), JBool(TRUE)}}
          [] name = T_getMetrics ->
                 {[NoArguments EXCEPT !.includeCache = v] : v \in {JNull, JBool(TRUE)}}
          [] OTHER -> {NoArguments}}

Tools == {T_getUser, T_getRepo, T_searchRepos, T_getMetrics, T_clearCache, T_other}
GitHubTools == {T_getUser, T_getRepo, T_searchRepos}

\* the guard that lets every call with arguments through
Confirmed_Always(args) == args # << >>

\* `if (!args.confirm) return ...` is passed
Confirmed(args) == args # << >> /\ ToBoolean(args[1].confirm)

\* `throw new Error(`Unknown tool: ${name}`)`
UnknownTool(name) ==
    [name |-> "Error", msg |-> <<"U", "n", "k", "n", "o", "w", "n", " ", "t", "o", "o", "l", ":", " ">> \o name,
     attempt |-> 0]

\* a recording of nothing
Unrecorded(m) ==
    [collector |-> m, records |-> << >>, isError |-> FALSE, success |-> FALSE,
     error |-> "", field |-> << >>, retryAfter |-> << >>]

\* the handler returns: its result is on record until the next step.
\* `input` is the argument given to the operation of GitHubAPI, << >> when
\* none was called.
Returned(c, name, input, o, count) ==
    [tools |-> [server.tools EXCEPT ![c] = << >>],
     results |-> [d \in Tasks |->
                     IF d = c
                     THEN <<[name |-> name, input |-> input, records |-> o.records,
                             isError |-> o.isError,
                             success |-> o.success, error |-> o.error, field |-> o.field,
                             retryAfter |-> o.retryAfter]>>
                     ELSE << >>],
     count |-> count]

\* the handler is suspended on the operation of its tool
Suspended(c, name, input, ctx, count) ==
    [tools |-> [server.tools EXCEPT ![c] = <<[name |-> name, input |-> input, ctx |-> ctx]>>],
     results |-> [d \in Tasks |-> << >>],
     count |-> count]

\* request has settled as `call`: the operation builds its result and the
\* handler goes on.  `throw undefined` makes the operation's catch throw.
Settled(m, ctx, name, call, t) ==
    IF call.pc = "done" THEN AfterOperation(m, ctx, name, ApiSuccess(name, call.result), t)
    ELSE IF call.error = << >> THEN Caught(m, ctx, NullDereference, << >>)
    ELSE AfterOperation(m, ctx, name, handleApiError(call.error[1], S_github), t)

ToolCall(c, name, args) ==
    /\ server.count < MaxToolCalls
    /\ FreeTask(c)
    /\ \A d \in Tasks : d < c => ~FreeTask(d)
    /\ LET ctx == startRequest(S_github, name, now)
           count == server.count + 1
           invalid == Validate(name, ToolInput(name, args[1]))
       IN  IF name \in GitHubTools /\ args # << >> /\ invalid = << >>
           THEN /\ StartRequest(c, ApiEndpoint(name, ToolInput(name, args[1])), << >>)
                /\ IF calls'[c].pc \in {"done", "failed"}
                   THEN LET o == Settled(collector, ctx, name, calls'[c], now')
                        IN  /\ collector' = o.collector
                            /\ server' = Returned(c, name, <<ToolInput(name, args[1])>>,
                                                   o, count)
                   ELSE /\ collector' = collector
                        /\ server' = Suspended(c, name, <<ToolInput(name, args[1])>>,
                                                ctx, count)
                /\ UNCHANGED report
           ELSE LET cleared == name = T_clearCache /\ Confirmed(args)
                    o == IF name = T_other
                         THEN Caught(collector, ctx, UnknownTool(name), << >>)
                         ELSE IF args = << >>
                         THEN Caught(collector, ctx, NullDereference, << >>)
                         ELSE IF name \in GitHubTools
                         THEN AfterOperation(collector, ctx, name,
                                             handleApiError(invalid[1], S_github), now)
                         ELSE IF name = T_clearCache /\ ~cleared
                         THEN Unrecorded(collector)
                         ELSE [Unrecorded(recordSuccess(collector, ctx, now, now))
                                  EXCEPT !.records = <<"success">>, !.success = TRUE]
                IN  /\ collector' = o.collector
                    /\ server' = Returned(c, name,
                                           IF name \in GitHubTools /\ args # << >>
                                           THEN <<ToolInput(name, args[1])>> ELSE << >>,
                                           o, count)
                    /\ report' = IF name = T_getMetrics /\ args # << >>
                                 THEN <<getReport(collector)>> ELSE report
                    /\ IF cleared
                       THEN /\ Install(CacheClear(Self))
                            /\ useOrder' = << >>
                       ELSE UNCHANGED <<cache, accessTimes, metrics, useOrder>>
                    /\ UNCHANGED <<now, maxSize, lastOp, httpVars>>
    /\ UNCHANGED <<callArgs, callRet, recorded, workload>>

\* the continuation of a suspended tool call when request settles
Resume(c) ==
    /\ server.tools[c] # << >>
    /\ IF calls'[c].pc \in {"done", "failed"}
       THEN LET tool == server.tools[c][1]
                o == Settled(collector, tool.ctx, tool.name, calls'[c], now')
            IN  /\ collector' = o.collector
                /\ server' = Returned(c, tool.name, tool.input, o, server.count)
       ELSE /\ collector' = collector
            /\ server' = [server EXCEPT !.results = [d \in Tasks |-> << >>]]
    /\ UNCHANGED <<callArgs, callRet, report, recorded, workload>>

ToolFetchSucceeds(c, data) == Fetched(c, data) /\ Resume(c)

ToolFetchFails(c) == FetchFailed(c) /\ Resume(c)

ToolBackoffDone(c) == BackedOff(c) /\ Resume(c)

InitServer ==
    /\ now = 0
    /\ InitCache
    /\ maxSize = MaxCapacity
    /\ retries \in {1, 2}
    /\ limit = 1
    /\ window \in WindowChoices
    /\ InitClient
    /\ InitSide

NextServer ==
    \/ \E c \in Tasks, name \in Tools : \E args \in ToolArguments(name) : ToolCall(c, name, args)
    \/ \E c \in Tasks, data \in Bodies : ToolFetchSucceeds(c, data)
    \/ \E c \in Tasks : ToolFetchFails(c)
    \/ \E c \in Tasks : ToolBackoffDone(c)

SpecServer == InitServer /\ [][NextServer]_vars

(***************************************************************************)
(* The pipeline under its scheduling assumptions.  `await fetch(url,       *)
(* requestOptions)`, which is given `timeout: this.config.timeout`,        *)
(* settles every attempt: with a response, an error, or the per-attempt    *)
(* timeout; the setTimeout of a backoff fires.  Neither says which         *)
(* invocation is served first, nor whether an attempt succeeds.  The calls *)
(* are reads and writes of one endpoint under every setting of `retries`.  *)
(***************************************************************************)
InitLive ==
    /\ now = 0
    /\ InitCache
    /\ maxSize = MaxCapacity
    /\ retries \in RetryChoices
    /\ limit = MaxLimit
    /\ window \in WindowChoices
    /\ InitClient
    /\ InitSide

\* the attempt in flight of invocation c settles
Resolves(c) == (\E v \in Responses : FetchSucceeds(c, v)) \/ FetchFails(c)

NextLive ==
    \/ \E c \in Tasks, m \in {<< >>, <<S_POST>>} : Start(c, E_users, m)
    \/ \E c \in Tasks : Resolves(c)
    \/ \E c \in Tasks : BackoffDone(c)

SpecLive ==
    /\ InitLive
    /\ [][NextLive]_vars
    /\ \A c \in Tasks : WF_vars(Resolves(c)) /\ WF_vars(BackoffDone(c))

(***************************************************************************)
(* Steps and states of the pipeline that the claims speak about            *)
(***************************************************************************)
\* task c begins an invocation of request in this step
Begins(c) == started' = started + 1 /\ calls'[c] # calls[c] /\ calls'[c].pc # "idle"

\* the invocation of task c was answered from the cache
FromCache(call) == call.pc = "done" /\ call.attempts = 0

\* the invocation threw the rate limiter's error
RateLimited(call) ==
    call.pc = "failed" /\ call.error # << >> /\ call.error[1].attempt = 0

(***************************************************************************)
(* C3: a read that finds an unexpired entry for its key (stored by an      *)
(* earlier identical read, whatever JSON value it holds) returns that      *)
(* value and makes no transport attempt.                                   *)
(***************************************************************************)
C3_RepeatedRead ==
    \A c \in Tasks :
        calls[c].fresh # << >>
            => /\ calls[c].pc = "done"
               /\ calls[c].result = calls[c].fresh[1]
               /\ calls[c].attempts = 0

(***************************************************************************)
(* C4: a read whose key holds an unexpired entry returns without touching  *)
(* the rate limiter: the counter and the window are unchanged by the call, *)
(* and the call succeeds even when the window's quota is used up.          *)
(***************************************************************************)
C4_HitBypassesLimiter ==
    [][\A c \in Tasks :
          Begins(c) /\ calls'[c].fresh # << >>
              => /\ requestCount' = requestCount
                 /\ resetTime' = resetTime
                 /\ ~RateLimited(calls'[c])]_vars

(***************************************************************************)
(* C5: fixed window.  When `limit` invocations have been admitted in the   *)
(* current window, each with its first attempt only, the next uncached     *)
(* invocation in that window (now <= resetTime) fails with the rate-limit  *)
(* error and makes no attempt.  An uncached invocation that reads          *)
(* now > resetTime finds the counter reset to 0, starts a window of length *)
(* `window` at that reading and is admitted.                               *)
(***************************************************************************)
C5_FixedWindow ==
    [][\A c \in Tasks :
          Begins(c) /\ ~FromCache(calls'[c])
              => /\ (now' <= resetTime /\ windowUse.first = limit /\ windowUse.retried = 0)
                        => RateLimited(calls'[c]) /\ calls'[c].attempts = 0
                 /\ now' > resetTime
                        => /\ calls'[c].admitted
                           /\ calls'[c].slot = 0
                           /\ resetTime' = now' + window
                           /\ requestCount' <= 1
                           /\ ~RateLimited(calls'[c])]_vars

\* an invocation is rejected in a window that began after the first one:
\* the window was reset, filled, and then refused a call
C5_Witness ==
    \E c \in Tasks : RateLimited(calls[c]) /\ calls[c].epoch >= 1
                     /\ windowUse.first = limit /\ windowUse.retried = 0

(***************************************************************************)
(* C6: the rate-limit check and the first increment of the counter are one *)
(* step: two invocations that made their first attempt in the same window  *)
(* never passed the check on the same value of the counter.                *)
(***************************************************************************)
C6_CheckIncrementAtomic ==
    \A c1, c2 \in Tasks :
        (/\ c1 # c2
         /\ calls[c1].admitted /\ calls[c1].attempts >= 1
         /\ calls[c2].admitted /\ calls[c2].attempts >= 1
         /\ calls[c1].epoch = calls[c2].epoch)
            => calls[c1].slot # calls[c2].slot

\* two invocations in flight in one window, one of them on the last slot
C6_Witness ==
    \E c1, c2 \in Tasks :
        /\ c1 # c2
        /\ calls[c1].pc = "fetch" /\ calls[c2].pc = "fetch"
        /\ calls[c1].epoch = calls[c2].epoch
        /\ calls[c2].slot = limit - 1

(***************************************************************************)
(* C7: the counter of a target never exceeds the configured limit.         *)
(***************************************************************************)
C7_CountWithinLimit == requestCount <= limit

(***************************************************************************)
(* C8: an invocation makes at most `retries` attempts; the attempt that    *)
(* succeeds is its last one and its value is returned, so that with        *)
(* retries = 3 and two failures the call succeeds on its third attempt.    *)
(***************************************************************************)
C8_BoundedRetry ==
    \A c \in Tasks :
        /\ calls[c].attempts <= retries
        /\ (calls[c].pc = "done" /\ calls[c].attempts >= 1)
               => /\ calls[c].attempts = calls[c].fails + 1
                  /\ calls[c].answer = <<calls[c].result>>
        /\ calls[c].answer # << >> => calls[c].pc = "done"
        /\ (retries = 3 /\ calls[c].pc = "done" /\ calls[c].fails = 2)
               => calls[c].attempts = 3

C8_Witness ==
    \E c \in Tasks :
        retries = 3 /\ calls[c].pc = "done" /\ calls[c].fails = 2 /\ calls[c].attempts = 3

(***************************************************************************)
(* C9: the i-th delay of an invocation is 2^(i-1) * 1000 ms; a successful  *)
(* invocation has taken one delay per failed attempt, and an invocation    *)
(* that fails all its attempts has taken exactly retries - 1 delays.       *)
(***************************************************************************)
DelaysDouble(call) ==
    \A i \in 1..Len(call.delays) : call.delays[i] = 1000 * 2 ^ (i - 1)

\* the invocation passed the rate limiter and threw after the retry loop
AllAttemptsFailed(call) == call.pc = "failed" /\ call.admitted

C9_BackoffSchedule ==
    \A c \in Tasks :
        /\ DelaysDouble(calls[c])
        /\ calls[c].pc = "done" => Len(calls[c].delays) = calls[c].fails
        /\ AllAttemptsFailed(calls[c]) => Len(calls[c].delays) = retries - 1

\* C9 as amended: retries - 1 delays when retries >= 1, none when retries = 0
C9_BackoffScheduleAmended ==
    \A c \in Tasks :
        /\ DelaysDouble(calls[c])
        /\ calls[c].pc = "done" => Len(calls[c].delays) = calls[c].fails
        /\ AllAttemptsFailed(calls[c])
               => Len(calls[c].delays) = (IF retries >= 1 THEN retries - 1 ELSE 0)

C9_Witness ==
    \E c \in Tasks :
        retries = 3 /\ AllAttemptsFailed(calls[c]) /\ calls[c].delays = <<1000, 2000>>

(***************************************************************************)
(* C10: an invocation none of whose attempts succeeds fails with the error *)
(* of its last attempt, never with an absent error.                        *)
(***************************************************************************)
C10_FailurePropagates ==
    \A c \in Tasks :
        AllAttemptsFailed(calls[c])
            => calls[c].error # << >> /\ calls[c].error = calls[c].lastFail

(***************************************************************************)
(* C11: an invocation that is not answered from the cache and finds the    *)
(* window exhausted (the counter at the limit, the window not yet over)    *)
(* fails in that same step with the rate limiter's error: it makes no      *)
(* attempt, takes no delay, leaves the counter as it was and writes        *)
(* nothing to the cache.                                                   *)
(***************************************************************************)
\* no entry is added or replaced in this step
NothingWritten ==
    /\ metrics'.sets = metrics.sets
    /\ \A i \in 1..Len(cache') : \E j \in 1..Len(cache) : cache'[i] = cache[j]

C11_RateLimitRejection ==
    [][\A c \in Tasks :
          (/\ Begins(c) /\ ~FromCache(calls'[c])
           /\ requestCount >= limit /\ now' <= resetTime)
              => /\ RateLimited(calls'[c])
                 /\ calls'[c].attempts = 0
                 /\ calls'[c].delays = << >>
                 /\ requestCount' = requestCount
                 /\ NothingWritten]_vars

\* a read has been refused while the cache held an entry and another
\* invocation was in flight
C11_Witness ==
    \E c, d \in Tasks :
        /\ RateLimited(calls[c]) /\ calls[c].method = << >>
        /\ calls[d].pc = "fetch"
        /\ Len(cache) >= 1 /\ requestCount >= limit

(***************************************************************************)
(* C12: an invocation with method POST, PUT or DELETE never reads the      *)
(* cache (the cache, its access times and its counters are the same after  *)
(* every step of the invocation), is never answered from the cache (it is  *)
(* refused by the rate limiter or admitted by it, and a value it returns   *)
(* is the answer of one of its attempts), and never stores an entry.       *)
(***************************************************************************)
\* the methods of HttpClient.post, put and delete
NonRead(call) == call.method \in {<<S_POST>>, <<S_PUT>>, <<S_DELETE>>}

\* task c takes a step of its invocation
Acts(c) == calls'[c] # calls[c] /\ calls'[c].pc # "idle"

C12_NonReadNeverCached ==
    [][\A c \in Tasks :
          Acts(c) /\ NonRead(calls'[c])
              => /\ cache' = cache /\ accessTimes' = accessTimes /\ metrics' = metrics
                 /\ calls'[c].fresh = << >>
                 /\ Begins(c) => calls'[c].admitted \/ RateLimited(calls'[c])
                 /\ calls'[c].pc = "done"
                        => /\ calls'[c].attempts >= 1
                           /\ calls'[c].answer = <<calls'[c].result>>]_vars

\* a DELETE has succeeded, and the cache holds an entry of a read only
C12_Witness ==
    \E c \in Tasks :
        /\ calls[c].pc = "done" /\ calls[c].method = <<S_DELETE>>
        /\ Len(cache) = 1 /\ metrics.sets = 1

(***************************************************************************)
(* C13: generateKey returns the same string for two parameter objects that *)
(* hold the same name/value pairs in different insertion orders.           *)
(***************************************************************************)
C13_KeyOrderInsensitive ==
    callRet # << >> => callRet[1] = callRet[2]

\* three properties, given in two different orders of which the first is
\* not the sorted one
C13_Witness ==
    /\ callRet # << >>
    /\ Len(callArgs.params) = 3
    /\ callArgs.params # callArgs.permuted
    /\ ObjectKeys(callArgs.params) # SortNames(ObjectKeys(callArgs.params))

(***************************************************************************)
(* C18: the TTL of a stored read is that of the first rule its endpoint    *)
(* matches: '/users/' without '/repos' 10 minutes, '/repos/' without       *)
(* '/issues' 5 minutes, '/search/' 3 minutes, '/issues' 1 minute; the      *)
(* cache's default TTL when no rule matches.  Every endpoint gets one of   *)
(* these values, and the entry expires that long after its creation.       *)
(***************************************************************************)
TTLRules ==
    <<[has |-> S_users, hasNot |-> <<S_repos>>, minutes |-> 10],
      [has |-> S_reposSlash, hasNot |-> <<S_issues>>, minutes |-> 5],
      [has |-> S_search, hasNot |-> << >>, minutes |-> 3],
      [has |-> S_issues, hasNot |-> << >>, minutes |-> 1]>>

Matches(rule, endpoint) ==
    /\ Includes(endpoint, rule.has)
    /\ \A i \in 1..Len(rule.hasNot) : ~Includes(endpoint, rule.hasNot[i])

FirstMatch(endpoint) ==
    LET m == {i \in 1..Len(TTLRules) : Matches(TTLRules[i], endpoint)}
    IN  IF m = {} THEN << >> ELSE <<CHOOSE i \in m : \A j \in m : i <= j>>

C18_TTLSelection ==
    callRet # << >>
        => LET f == FirstMatch(callArgs.endpoint)
               expected == IF f = << >> THEN DefaultTTL
                           ELSE TTLRules[f[1]].minutes * 60 * 1000
           IN  /\ callRet = <<expected>>
               /\ Len(cache) = 1
               /\ cache[1].expiresAt = cache[1].createdAt + expected

\* an endpoint that the first rule excludes, the second rule excludes and
\* the fourth rule takes
C18_Witness ==
    /\ callRet = <<60000>>
    /\ Includes(callArgs.endpoint, S_users)
    /\ Includes(callArgs.endpoint, S_reposSlash)
    /\ Len(cache) = 1

(***************************************************************************)
(* C14: a get of key k that directly follows set(k, v, ttl) with ttl > 0,  *)
(* the clock not having passed the entry's expiry, returns v and counts a  *)
(* hit.                                                                    *)
(***************************************************************************)
C14_RoundTrip ==
    [][(/\ lastOp.op = "set" /\ lastOp.num > 0
        /\ lastOp'.op = "get" /\ lastOp'.key = lastOp.key
        /\ lastOp'.at <= lastOp.at + lastOp.num)
           => /\ lastOp'.val = lastOp.val
              /\ lastOp'.flag
              /\ metrics'.hits = metrics.hits + 1
              /\ metrics'.misses = metrics.misses]_vars

\* the falsy value 0 stored under the empty key has been read back at the
\* very instant of its expiry
C14_Witness ==
    /\ lastOp.op = "get" /\ lastOp.key = << >> /\ lastOp.flag /\ lastOp.val = JNum(0)
    /\ MapHas(cache, << >>) /\ MapGet(cache, << >>).expiresAt = lastOp.at
    /\ lastOp.at = 1

(***************************************************************************)
(* C15: a get of a key whose entry's expiresAt has passed returns null,    *)
(* increments totalRequests and misses, leaves hits alone and removes the  *)
(* entry from the cache and from the access times.                         *)
(***************************************************************************)
C15_ExpiredRead ==
    [][(/\ lastOp'.op = "get"
        /\ MapHas(cache, lastOp'.key)
        /\ lastOp'.at > MapGet(cache, lastOp'.key).expiresAt)
           => /\ lastOp'.val = JNull
              /\ metrics' = [metrics EXCEPT !.totalRequests = @ + 1, !.misses = @ + 1]
              /\ cache' = MapDelete(cache, lastOp'.key)
              /\ accessTimes' = MapDelete(accessTimes, lastOp'.key)
              /\ ~MapHas(cache', lastOp'.key)
              /\ ~MapHas(accessTimes', lastOp'.key)]_vars

\* a get has removed an entry and another entry stayed
C15_Witness ==
    /\ lastOp.op = "get" /\ lastOp.num = 1 /\ lastOp.val = JNull
    /\ metrics.misses >= 1 /\ metrics.hits = 0
    /\ Len(cache) >= 1

(***************************************************************************)
(* C16: cleanup removes exactly the entries whose expiresAt is earlier     *)
(* than the time of the call and returns how many they were; the other     *)
(* entries keep their value, expiry, access time and order, and the        *)
(* counters are unchanged.                                                 *)
(***************************************************************************)
ExpiredAt(t) == {cache[i].key : i \in {j \in 1..Len(cache) : cache[j].expiresAt < t}}

C16_CleanupExact ==
    [][lastOp'.op = "cleanup"
          => /\ lastOp'.num = Cardinality(ExpiredAt(now'))
             /\ cache' = SelectSeq(cache, LAMBDA e : e.key \notin ExpiredAt(now'))
             /\ accessTimes' = SelectSeq(accessTimes, LAMBDA a : a.key \notin ExpiredAt(now'))
             /\ metrics' = metrics]_vars

\* cleanup has removed one entry and kept one that expires at this instant
C16_Witness ==
    /\ lastOp.op = "cleanup" /\ lastOp.num = 1
    /\ Len(cache) = 1 /\ cache[1].expiresAt = now
    /\ metrics.sets = 2

(***************************************************************************)
(* C17: a set of a key that is not resident, in a cache that is at         *)
(* capacity, removes exactly one resident entry and counts one eviction,   *)
(* whatever strings the keys are; so maxSize + k insertions of distinct    *)
(* keys count k evictions.                                                 *)
(***************************************************************************)
C17_EvictionAccounting ==
    [][(/\ lastOp'.op = "set"
        /\ metrics'.sets = metrics.sets + 1
        /\ Len(cache) >= maxSize /\ ~MapHas(cache, lastOp'.key))
           => /\ metrics'.evictions = metrics.evictions + 1
              /\ Len(cache') = Len(cache)
              /\ Cardinality(MapKeys(cache) \ MapKeys(cache')) = 1]_vars

(***************************************************************************)
(* C19: after N recordSuccess and M recordFailure since construction or    *)
(* the last reset, getReport gives totalRequests = N + M, successful = N,  *)
(* failed = M, and as success rate the percentage N / (N + M) to two       *)
(* decimals, or '0%' when N + M = 0.                                       *)
(***************************************************************************)
\* q hundredths of a percent is a nearest value to n out of d
NearestPercent(q, n, d) ==
    LET diff == q * d - 10000 * n
    IN  2 * (IF diff < 0 THEN -diff ELSE diff) <= d

C19_Report ==
    report # << >>
        => LET n == recorded.successes
               m == recorded.failures
               r == report[1]
           IN  /\ r.summary.totalRequests = n + m
               /\ r.requests.total = n + m
               /\ r.requests.successful = n
               /\ r.requests.failed = m
               /\ n + m = 0 => r.summary.successRate = <<"0", "%">>
               /\ n + m > 0
                     => \E q \in 0..10000 :
                           /\ NearestPercent(q, n, n + m)
                           /\ r.summary.successRate = Hundredths(q) \o <<"%">>

\* two successes and one failure after a reset: 66.67%
C19_Witness ==
    /\ report # << >>
    /\ recorded.successes = 2 /\ recorded.failures = 1
    /\ now = 4
    /\ report[1].summary.successRate = <<"6", "6", ".", "6", "7", "%">>

(***************************************************************************)
(* C20: the response-time history never holds more than 100 samples; it    *)
(* holds the latencies folded since construction or the last reset, the    *)
(* most recent 100 of them in the order of their arrival once more than    *)
(* 100 have been folded.                                                   *)
(***************************************************************************)
LastOf(s, n) == IF Len(s) <= n THEN s ELSE SubSeq(s, Len(s) - n + 1, Len(s))

C20_BoundedHistory ==
    /\ Len(collector.performance.responseTimeHistory) <= 100
    /\ collector.performance.responseTimeHistory = LastOf(recorded.folded, 100)

\* 102 latencies have been folded: the two oldest are gone
C20_Witness ==
    /\ Len(recorded.folded) = 102
    /\ Len(collector.performance.responseTimeHistory) = 100
    /\ collector.performance.responseTimeHistory[1].timestamp = 3
    /\ collector.performance.responseTimeHistory[100].timestamp = 102

(***************************************************************************)
(* C29: an invocation admitted by the rate limiter increments the counter  *)
(* exactly once: once it is in flight, none of its further steps (a failed *)
(* attempt followed by another, a backoff that ends) changes the counter.  *)
(***************************************************************************)
C29_OneConsumption ==
    [][\A c \in Tasks :
          Acts(c) /\ calls[c].pc \in {"fetch", "backoff"}
              => requestCount' = requestCount]_vars

(***************************************************************************)
(* C30: every resident entry has expiresAt > createdAt, whatever ttl was   *)
(* given to set.                                                           *)
(***************************************************************************)
C30_EntryTimestamps ==
    \A i \in 1..Len(cache) : cache[i].expiresAt > cache[i].createdAt

(***************************************************************************)
(* C25: the headers of the outbound request are the defaults, overlaid by  *)
(* the authentication headers, overlaid by the caller's headers: every     *)
(* default and authentication header the caller did not override is still  *)
(* sent, and a header the caller supplied has the caller's value.          *)
(***************************************************************************)
HeaderOf(obj, name) ==
    IF \E i \in 1..Len(obj) : obj[i].name = name
    THEN <<obj[ObjectGet(obj, name)].value>> ELSE << >>

C25_HeaderMerge ==
    callRet # << >> =>
        LET auth == getAuthHeaders(callArgs.apiName, callArgs.authType, callArgs.env)
            given == IF callArgs.options.headers = << >> THEN << >>
                     ELSE callArgs.options.headers[1]
            sent == callRet[1].headers
        IN  \A name \in {H_UserAgent, H_Accept, H_ContentType, H_Authorization,
                         H_ApiKey, H_Trace} :
                HeaderOf(sent, name) =
                    IF HeaderOf(given, name) # << >> THEN HeaderOf(given, name)
                    ELSE IF HeaderOf(auth, name) # << >> THEN HeaderOf(auth, name)
                    ELSE HeaderOf(DefaultHeaders, name)

(***************************************************************************)
(* C28: two calls of HttpClient.get with the same endpoint and the same    *)
(* parameters, given in different orders, compute the same cache key, and  *)
(* the second one, within the TTL of the first, is served from the cache.  *)
(***************************************************************************)
C28_GetKeyOrderInsensitive ==
    callRet # << >> => callRet[1] = callRet[2] /\ callRet[3]

(***************************************************************************)
(* C26: reads of one cache key that both miss and both fetch, in any       *)
(* interleaving: in every reachable state a key has at most one entry,     *)
(* the cache holds at most maxSize entries, the entry map and the          *)
(* access-time map have the same keys, and when such a read completes the  *)
(* stored value is the response of its fetch (so after both have completed *)
(* it is the response of one of the two).                                  *)
(***************************************************************************)
C26_DuplicateFetch ==
    /\ \A i, j \in 1..Len(cache) : cache[i].key = cache[j].key => i = j
    /\ Len(cache) <= maxSize
    /\ MapKeys(cache) = MapKeys(accessTimes)
    /\ Len(cache) = Len(accessTimes)
    /\ \A c \in Tasks :
          calls[c].pc = "done" /\ calls[c].answer # << >> /\ IsRead(calls[c].method)
              => /\ MapHas(cache, calls[c].cacheKey)
                 /\ MapGet(cache, calls[c].cacheKey).data = calls[c].answer[1]

\* two reads of one key have both missed at time 0 and both fetched; the
\* second of them has just completed
C26_Witness ==
    /\ now = 0
    /\ metrics.misses = 2 /\ metrics.hits = 0 /\ metrics.sets = 2
    /\ maxSize = MaxCapacity /\ Len(cache) = 1
    /\ \E c \in Tasks : calls[c].pc = "done" /\ calls[c].answer # << >>

(***************************************************************************)
(* C23: failure isolation.  An invocation that fails (rejected by the rate *)
(* limiter, or all its attempts failed) has added, replaced and removed no *)
(* cache entry; and an invocation begun after a failure on the same        *)
(* client, once admitted and answered by the dependency, succeeds and its  *)
(* response is cached as usual.  As claimed: no entry at all is removed.   *)
(***************************************************************************)
\* a read begun after a failure is answered by the dependency in this step
AnsweredAfterFailure(c) ==
    /\ Acts(c) /\ calls[c].afterFailure /\ IsRead(calls[c].method)
    /\ calls[c].pc = "fetch" /\ calls'[c].pc = "done"

\* the response is returned and stored under the call's key with its TTL
CachedNormally(c) ==
    /\ calls'[c].answer = <<calls'[c].result>>
    /\ metrics'.sets = metrics.sets + 1
    /\ MapHas(cache', calls[c].cacheKey)
    /\ MapGet(cache', calls[c].cacheKey).data = calls'[c].result
    /\ MapGet(cache', calls[c].cacheKey).expiresAt >= now + getCacheTTL(calls[c].endpoint)
    /\ MapGet(cache', calls[c].cacheKey).expiresAt <= now' + getCacheTTL(calls[c].endpoint)

C23_FailureIsolation ==
    [][\A c \in Tasks :
          /\ Acts(c) /\ calls'[c].pc = "failed"
                => cache' = cache /\ ~calls'[c].purged
          /\ AnsweredAfterFailure(c) => CachedNormally(c)]_vars

(***************************************************************************)
(* C23 as amended: the failing invocation adds and replaces no entry and   *)
(* removes no unexpired entry; the only entry it can remove is the expired *)
(* entry of its own key, purged by its read of the cache before the rate   *)
(* limiter is consulted.                                                   *)
(***************************************************************************)
C23_FailureIsolationAmended ==
    [][\A c \in Tasks :
          /\ Acts(c) /\ calls'[c].pc # "done"
                => /\ NothingWritten
                   /\ \A j \in 1..Len(cache) :
                         (\A i \in 1..Len(cache') : cache'[i] # cache[j])
                             => /\ Begins(c)
                                /\ cache[j].key = calls'[c].cacheKey
                                /\ cache[j].expiresAt < now'
          /\ AnsweredAfterFailure(c) => CachedNormally(c)]_vars

\* a read begun after a failure has been answered and is cached
C23_Witness ==
    \E c \in Tasks :
        /\ calls[c].pc = "done" /\ calls[c].afterFailure /\ calls[c].answer # << >>
        /\ IsRead(calls[c].method)
        /\ MapHas(cache, calls[c].cacheKey)

(***************************************************************************)
(* C27: the periodic cleanup may run at any suspension point of the        *)
(* invocations in flight.  It removes no entry whose expiry has not        *)
(* passed and touches no invocation; and the value an invocation has       *)
(* obtained from the cache or from the transport is the value it returns.  *)
(***************************************************************************)
\* the timer's callback runs in this step
TimerStep == lastOp'.op = "cleanup" /\ (lastOp' # lastOp \/ collector' # collector)

C27_ConcurrentCleanup ==
    [][/\ TimerStep
          => /\ calls' = calls
             /\ \A j \in 1..Len(cache) :
                   cache[j].expiresAt >= lastOp'.at
                       => /\ \E i \in 1..Len(cache') : cache'[i] = cache[j]
                          /\ MapHas(accessTimes', cache[j].key)
       /\ \A c \in Tasks :
             Acts(c) /\ calls'[c].pc = "done"
                 => \/ calls'[c].answer # << >> /\ calls'[c].result = calls'[c].answer[1]
                    \/ calls'[c].fresh # << >> /\ calls'[c].result = calls'[c].fresh[1]]_vars

\* the cleanup has removed an expired entry and left an unexpired one while
\* an invocation was suspended
C27_Witness ==
    /\ lastOp.op = "cleanup" /\ lastOp.num >= 1
    /\ \E i \in 1..Len(cache) : cache[i].expiresAt >= lastOp.at
    /\ \E c \in Tasks : calls[c].pc \in {"fetch", "backoff"}

(***************************************************************************)
(* Steps of the server that the claims speak about                         *)
(***************************************************************************)
\* the handler takes up a tool call of task c in this step
Takes(c) ==
    /\ server'.count = server.count + 1
    /\ server'.tools[c] # << >> \/ server'.results[c] # << >>

\* the tool call of task c returns in this step
Returns(c) == server'.results[c] # << >>

\* the tool call taken up in this step
Taken(c) ==
    IF server'.tools[c] # << >> THEN server'.tools[c][1] ELSE server'.results[c][1]

(***************************************************************************)
(* C21: every tool call records its outcome exactly once: when the handler *)
(* returns, exactly one of recordSuccess and recordFailure has been        *)
(* applied for the call, and requests.total has grown by one.              *)
(***************************************************************************)
C21_RecordedOnce ==
    [][\A c \in Tasks :
          Returns(c) => /\ Len(server'.results[c][1].records) = 1
                        /\ collector'.requests.total = collector.requests.total + 1]_vars

(***************************************************************************)
(* C22: a call rejected by the rate limiter reaches the caller as a        *)
(* failure of the rate-limit kind that carries a retry-after duration, not *)
(* as a generic request failure.                                           *)
(***************************************************************************)
C22_RateLimitKind ==
    [][\A c \in Tasks :
          Returns(c) /\ Begins(c) /\ RateLimited(calls'[c])
              => /\ ~server'.results[c][1].success
                 /\ server'.results[c][1].error = "Rate limit exceeded"
                 /\ server'.results[c][1].retryAfter # << >>]_vars

(***************************************************************************)
(* C24: an operation of GitHubAPI called with a malformed argument (a      *)
(* missing or ill-formed username, owner/repo or query) returns a failure  *)
(* of the validation kind, and neither the transport, nor the rate         *)
(* limiter, nor the cache is touched.                                      *)
(***************************************************************************)
\* letters, digits and single inner hyphens, at most 39 characters
WellFormedUsername(s) ==
    /\ Len(s) \in 1..39
    /\ \A i \in 1..Len(s) : IsAlnum(s[i]) \/ s[i] = "-"
    /\ s[1] # "-" /\ s[Len(s)] # "-"
    /\ \A i \in 1..(Len(s) - 1) : ~(s[i] = "-" /\ s[i + 1] = "-")

WellFormedRepo(s) ==
    /\ Len(s) \in 1..100
    /\ \A i \in 1..Len(s) : IsAlnum(s[i]) \/ s[i] \in {".", "_", "-"}

\* one owner and one repository, separated by one "/"
WellFormedOwnerRepo(s) ==
    \E k \in 1..Len(s) :
        /\ s[k] = "/"
        /\ WellFormedUsername(SubSeq(s, 1, k - 1))
        /\ WellFormedRepo(SubSeq(s, k + 1, Len(s)))

WellFormed(name, v) ==
    /\ v.t = "str"
    /\ CASE name = T_getUser -> WellFormedUsername(v.s)
         [] name = T_getRepo -> WellFormedOwnerRepo(v.s)
         [] OTHER -> Len(v.s) <= 256 /\ ~Blank(v.s)

C24_ValidationBeforeNetwork ==
    [][\A c \in Tasks :
          (/\ Takes(c) /\ Taken(c).input # << >>
           /\ ~WellFormed(Taken(c).name, Taken(c).input[1]))
              => /\ Returns(c)
                 /\ ~server'.results[c][1].success
                 /\ server'.results[c][1].error = "Validation failed"
                 /\ server'.results[c][1].field # << >>
                 /\ UNCHANGED <<cache, accessTimes, metrics, requestCount, resetTime,
                                calls, started>>]_vars

(***************************************************************************)
(* C31: set(key, value, ttl) stores expiresAt = now + ttl for every ttl    *)
(* that is supplied, ttl = 0 included, and now + defaultTTL only when the  *)
(* ttl is omitted (or null); `now` is the reading from which set computed  *)
(* the expiry.                                                             *)
(***************************************************************************)
C31_TTLDefaulting ==
    [][\A k \in Keys, v \in CacheValues, ttl \in TTLArgs :
         Set(k, v, ttl)
           => MapGet(cache', k).expiresAt
                = lastOp'.at + (IF ttl = << >> THEN DefaultTTL ELSE ttl[1])]_vars

(***************************************************************************)
(* C32: a set on a key that is already resident evicts nothing, even at    *)
(* maxSize: it replaces that key's value and expiry, leaves every other    *)
(* entry and the size unchanged, and increments `sets` by one.             *)
(***************************************************************************)
C32_OverwriteKeeps ==
    [][lastOp'.op = "set" /\ MapHas(cache, lastOp'.key)
         => /\ metrics'.evictions = metrics.evictions
            /\ metrics'.sets = metrics.sets + 1
            /\ Len(cache') = Len(cache)
            /\ \A i \in 1..Len(cache) :
                 cache[i].key # lastOp'.key => cache'[i] = cache[i]
            /\ MapHas(cache', lastOp'.key)
            /\ MapGet(cache', lastOp'.key).data = lastOp'.val
            /\ MapGet(cache', lastOp'.key).expiresAt
                 = lastOp'.at + ActualTTL(<<lastOp'.num>>)]_vars

\* a full cache of two entries whose first-inserted key has just been set again
C32_Witness ==
    /\ lastOp.op = "set"
    /\ maxSize = 2
    /\ Len(cache) = 2
    /\ metrics.sets = 3
    /\ metrics.evictions = 0
    /\ cache[1].key = lastOp.key
    /\ cache[1].data = lastOp.val

(***************************************************************************)
(* C33: has(key) answers false for an unknown or expired key and true      *)
(* otherwise, by the expiry test of get; it removes the entry it finds     *)
(* expired and changes nothing else: the counters and every last-access    *)
(* time stay as they were, so the entry the next eviction would remove is  *)
(* the same unless it is the expired entry just removed.                   *)
(***************************************************************************)
C33_HasIsPassive ==
    [][lastOp'.op = "has"
         => LET k == lastOp'.key
                expired == MapHas(cache, k) /\ now' > MapGet(cache, k).expiresAt
            IN  /\ lastOp'.flag = (MapHas(cache, k) /\ ~expired)
                /\ lastOp'.flag = CacheGet(Self, k, now', now').hit
                /\ metrics' = metrics
                /\ cache' = IF expired THEN MapDelete(cache, k) ELSE cache
                /\ accessTimes' = IF expired THEN MapDelete(accessTimes, k)
                                  ELSE accessTimes
                /\ \/ OldestKey(accessTimes') = OldestKey(accessTimes)
                   \/ expired /\ OldestKey(accessTimes) = <<k>>]_vars

\* has has just answered true on a full cache whose counters hold one hit
C33_Witness ==
    /\ lastOp.op = "has"
    /\ lastOp.flag
    /\ maxSize = 2
    /\ Len(cache) = 2
    /\ metrics.hits = 1
    /\ metrics.totalRequests = 1

(***************************************************************************)
(* C35: when a call has been rejected by the rate limiter at time t with   *)
(* w = resetTime - t left of the window, an uncached call that begins at   *)
(* time t + w, the end of that window, is admitted.                        *)
(***************************************************************************)
C35_AdvertisedWait ==
    [][\A c \in Tasks :
          (/\ \E d \in Tasks : RateLimited(calls[d])
           /\ Begins(c)
           /\ ~FromCache(calls'[c])
           /\ now' = resetTime)
              => calls'[c].admitted /\ ~RateLimited(calls'[c])]_vars

(***************************************************************************)
(* C36: after any sequence of recordSuccess and recordFailure, the average *)
(* response time the collector holds is the accumulated latency divided by *)
(* the number of samples folded into it, and so lies between the recorded  *)
(* minimum and maximum once a sample has been folded.                      *)
(***************************************************************************)
C36_AverageOfSamples ==
    LET p == collector.performance
        samples == Len(recorded.folded)
    IN  samples >= 1
          => /\ p.avgResponseTime.num * samples
                  = p.totalResponseTime * p.avgResponseTime.den
             /\ p.minResponseTime[1] * p.avgResponseTime.den <= p.avgResponseTime.num
             /\ p.avgResponseTime.num <= p.maxResponseTime * p.avgResponseTime.den

(***************************************************************************)
(* C37: after any sequence of recordSuccess, recordFailure and reset,      *)
(* requests.total = requests.successful + requests.failed; the per-api     *)
(* counts and the per-tool counts each add up to requests.total, to        *)
(* requests.successful and to requests.failed; and errors.total =          *)
(* requests.failed = the sum of the per-type error counts = the sum of the *)
(* per-api error counts.                                                   *)
(***************************************************************************)
RECURSIVE Sum(_)
Sum(s) == IF s = << >> THEN 0 ELSE Head(s) + Sum(Tail(s))

Totals(by) == Sum([i \in 1..Len(by) |-> by[i].total])
Successes(by) == Sum([i \in 1..Len(by) |-> by[i].successful])
Failures(by) == Sum([i \in 1..Len(by) |-> by[i].failed])
Counts(by) == Sum([i \in 1..Len(by) |-> by[i].count])

C38_CacheCounters ==
    /\ [](metrics.hits + metrics.misses = metrics.totalRequests)
    /\ [][/\ lastOp'.op = "get"
               => /\ metrics'.totalRequests = metrics.totalRequests + 1
                  /\ \/ metrics'.hits = metrics.hits + 1 /\ metrics'.misses = metrics.misses
                     \/ metrics'.hits = metrics.hits /\ metrics'.misses = metrics.misses + 1
          /\ lastOp'.op \notin {"get", "clear"}
               => /\ metrics'.hits = metrics.hits
                  /\ metrics'.misses = metrics.misses
                  /\ metrics'.totalRequests = metrics.totalRequests]_vars

\* a get has counted a miss for an entry it found expired, after a hit
C38_Witness ==
    /\ lastOp.op = "get"
    /\ ~lastOp.flag
    /\ lastOp.num = 1
    /\ metrics.hits = 1
    /\ metrics.misses = 1

(***************************************************************************)
(* C40: after any sequence of get, set, delete, has, cleanup, evictLRU and *)
(* clear, a key has a last-access time if and only if it has a resident    *)
(* entry, so the key evictLRU selects always has an entry.                 *)
(***************************************************************************)
C40_SameKeySet ==
    /\ MapKeys(cache) = MapKeys(accessTimes)
    /\ Len(cache) = Len(accessTimes)
    /\ OldestKey(accessTimes) # << >> => MapHas(cache, OldestKey(accessTimes)[1])

\* an entry has been evicted, another has been deleted, and one is resident
C40_Witness ==
    /\ metrics.evictions >= 1
    /\ lastOp.op = "delete"
    /\ lastOp.flag
    /\ Len(cache) = 1
    /\ Len(accessTimes) = 1

(***************************************************************************)
(* C39: the mcp-clear-cache tool called without confirm = true leaves the  *)
(* entries, the access times and the counters of the cache unchanged; a    *)
(* call with confirm = true empties the cache and resets its counters, and *)
(* no other step of the server resets them.                                *)
(***************************************************************************)
ConfirmTrue == <<[NoArguments EXCEPT !.confirm = JBool(TRUE)]>>

InFlight(c) == calls[c].pc \in {"fetch", "backoff"}
Completed(c) == calls[c].pc \in {"done", "failed"}

Terminates == \A c \in Tasks : InFlight(c) ~> Completed(c)

C34_Termination ==
    /\ Terminates
    /\ [](\A c \in Tasks :
             Completed(c) => /\ calls[c].attempts <= retries
                             /\ Len(calls[c].delays) <= retries - 1)

\* the same with the bound on the delays that holds for retries = 0 too:
\* at most retries - 1 delays, and none when retries = 0
C34_TerminationAmended ==
    /\ Terminates
    /\ [](\A c \in Tasks :
             /\ calls[c].attempts <= retries
             /\ Completed(c) /\ retries >= 1 => Len(calls[c].delays) <= retries - 1
             /\ retries = 0 => Len(calls[c].delays) = 0)

\* an invocation has failed after all its attempts and all its delays, while
\* another is in flight
C34_Witness ==
    \E c, d \in Tasks :
        /\ retries = MaxRetries
        /\ calls[c].pc = "failed"
        /\ calls[c].attempts = retries
        /\ Len(calls[c].delays) = retries - 1
        /\ InFlight(d)

====
